---------------------------- MODULE Spec2Model ----------------------------
(***************************************************************************)
(* A model of backuper (src/backup.py): the retention policy               *)
(* (BackupFrequency), the storages and their archive naming, the           *)
(* write-test cache, configuration resolution and the `run` command.       *)
(*                                                                         *)
(* Several specifications share the variables below; each one drives one   *)
(* part of the program and leaves the other variables at their initial     *)
(* value:                                                                  *)
(*   SpecRetention  BackupFrequency.should_keep / MemoryStorage.should_save*)
(*   SpecArchive    list_archives and clean_archives over both storages     *)
(*   SpecRun        the `run` command: BackupConfig, do_backup, do_report   *)
(*   SpecProbe      the write tests and WriteTestCache                      *)
(*   SpecShared     backups, listings and cleanings over shared storages    *)
(*   SpecSelect     glob_target and glob_targets                            *)
(*   SpecMerge      deep_merge                                              *)
(*   SpecInclude    BackupConfig._parse_includes                            *)
(*   SpecSection    the files and databases sub-sections of a server block  *)
(*   SpecReport     do_report and test_reports                              *)
(*   SpecOverlay    the blocks of a server laid over the common section     *)
(*   SpecAggregate  Report.add_issue, add_warning, add_success              *)
(*   SpecClock      TimeReference while the wall clock passes midnight      *)
(*   SpecSaved      the archives one process saves, lists and cleans        *)
(***************************************************************************)
EXTENDS Integers, Sequences, FiniteSets, TLC

VARIABLES
    now,          \* TimeReference._now, as a date [year, month, day]
    freq,         \* a BackupFrequency: [day, week, month, year]
    op,           \* retention: the operation applied last
    archive_date, \* retention: the date handed to should_keep
    result,       \* retention: what the operation returned
    storages,     \* the Storage objects: a sequence of [kind, key, freq]
    actions,      \* BackupConfig._actions: a sequence of Action records
    files,        \* per storage, the entries of its folder / of its index file
    listed,       \* archive: what the last list_archives call did
    removed,      \* the <<storage, archive>> pairs storage.remove has removed
    steps,        \* archive: the number of operations applied
    config,       \* run: the configuration file's content
    pc,           \* run: where main is
    uncaught,     \* run: the exception that left main, "none" when none did
    report_list,  \* run: BackupConfig._report_list
    next_action,  \* run: the index of the action the loop of main handles next
    report,       \* run: the Report
    outcomes,     \* run: per action handled, where do_backup's try block stopped
    save_calls,   \* run: the calls of storage.save, in order
    next_target,  \* run: the index of the report target do_report handles next
    delivered,    \* run: the calls of report_target.report, in order
    quit_msg,     \* run: the length of KillEventHandler._quit_msg
    exit_code,    \* run: what main returned, -1 while it runs
    folder_cache,        \* WriteTestCache._folder_cache
    glacier_vault_cache, \* WriteTestCache._glacier_vault_cache
    probes,       \* probe: per folder and per vault, the write tests performed
    checks,       \* probe: per folder and per vault, the checks asked for
    detected_errors, \* probe: what the last check returned
    check_steps,  \* probe: the number of checks applied
    args,         \* the arguments drawn for a function of the program
    returned      \* the function applied to args, and what it returned

retentionVars == <<freq, op, archive_date, result>>
archiveVars == <<listed, steps>>
storeVars == <<storages, actions, files, removed>>

runVars ==
    <<config, pc, uncaught, report_list, next_action, report, outcomes,
      save_calls, next_target, delivered, quit_msg, exit_code>>

probeVars ==
    <<folder_cache, glacier_vault_cache, probes, checks, detected_errors,
      check_steps>>

callVars == <<args, returned>>

vars ==
    <<now, retentionVars, storeVars, archiveVars, runVars, probeVars, callVars>>

(***************************************************************************)
(* The other parts of the program while one specification runs: no         *)
(* storage, no action, nothing listed or removed.                          *)
(***************************************************************************)
NoPolicy == [day |-> 0, week |-> 0, month |-> 0, year |-> 0]

IdleRetention ==
    /\ freq = NoPolicy
    /\ op = "none"
    /\ archive_date = [year |-> 0, month |-> 0, day |-> 0]
    /\ result = FALSE

IdleStore ==
    /\ storages = <<>>
    /\ actions = <<>>
    /\ files = <<>>
    /\ removed = {}

IdleArchive ==
    /\ listed = [call |-> "none"]
    /\ steps = 0

\* Report()
Report == [issues |-> <<>>, warnings |-> <<>>, success |-> <<>>]

IdleRun ==
    /\ config = [actions |-> <<>>, reports |-> <<>>]
    /\ pc = "idle"
    /\ uncaught = "none"
    /\ report_list = <<>>
    /\ next_action = 1
    /\ report = Report
    /\ outcomes = <<>>
    /\ save_calls = <<>>
    /\ next_target = 1
    /\ delivered = <<>>
    /\ quit_msg = 0
    /\ exit_code = -1

IdleProbe ==
    /\ folder_cache = <<>>
    /\ glacier_vault_cache = <<>>
    /\ probes = <<>>
    /\ checks = <<>>
    /\ detected_errors = <<>>
    /\ check_steps = 0

IdleCall ==
    /\ args = <<>>
    /\ returned = [fn |-> "none"]

(***************************************************************************)
(* Bounds of the model.                                                    *)
(***************************************************************************)
BaseYear == 2023      \* the year of the reference dates
RefMonths == 2        \* reference dates lie in the first RefMonths months
RefDays == 7          \* ... on the first RefDays days of the month
YearsBack == 2        \* snapshots go back to January of BaseYear - YearsBack
DaysBack == 15        \* ... and cover every day of the last DaysBack days
MaxTier == 2          \* tier values of the policies with several tiers set
MaxSingleTier == 3    \* tier values of the policies with one tier set
MaxMonthTier == 14    \* month tiers of the policies with the month tier alone
MaxEntries == 2       \* entries a folder or an index file starts with
MaxOps == 2           \* operations applied to the storages in a row
MaxActions == 2       \* actions of a configuration
MaxTargets == 2       \* report targets of a configuration
MaxChecks == 3        \* write checks applied in a row
MaxDays == 2          \* days that pass over the shared storages
MaxSharedOps == 4     \* operations applied to the shared storages
MaxIdentifiers == 2   \* identifiers of a target list
MaxItems == 2         \* items of a list of the configuration

(***************************************************************************)
(* datetime.date: the proleptic Gregorian calendar of Python's datetime.   *)
(***************************************************************************)
is_leap(y) == y % 4 = 0 /\ (y % 100 # 0 \/ y % 400 = 0)

days_in_month(y, m) ==
    IF m = 2 THEN (IF is_leap(y) THEN 29 ELSE 28)
    ELSE IF m \in {4, 6, 9, 11} THEN 30 ELSE 31

days_before_year(y) ==
    (y - 1) * 365 + ((y - 1) \div 4) - ((y - 1) \div 100) + ((y - 1) \div 400)

days_before_month(y, m) ==
    <<0, 31, 59, 90, 120, 151, 181, 212, 243, 273, 304, 334>>[m]
        + (IF m > 2 /\ is_leap(y) THEN 1 ELSE 0)

\* datetime.date(year, month, day) raises ValueError unless this holds
valid_date(y, m, d) ==
    /\ y \in 1..9999
    /\ m \in 1..12
    /\ d >= 1
    /\ d <= days_in_month(y, m)

Date(y, m, d) == [year |-> y, month |-> m, day |-> d]

toordinal(date) ==
    days_before_year(date.year) + days_before_month(date.year, date.month) + date.day

\* date.isoweekday(): Monday is 1, Sunday is 7
isoweekday(date) ==
    LET r == toordinal(date) % 7 IN IF r = 0 THEN 7 ELSE r

\* date.fromordinal(n), for the years of the model
fromordinal(n) ==
    LET y == CHOOSE yy \in (BaseYear - YearsBack - 2)..(BaseYear + 2) :
                 days_before_year(yy) < n /\ n <= days_before_year(yy + 1)
        m == CHOOSE mm \in 1..12 :
                 /\ days_before_year(y) + days_before_month(y, mm) < n
                 /\ n <= days_before_year(y) + days_before_month(y, mm)
                          + days_in_month(y, mm)
    IN Date(y, m, n - days_before_year(y) - days_before_month(y, m))

(***************************************************************************)
(* BackupFrequency                                                         *)
(***************************************************************************)
ALL_VALUE == -1
NO_VALUE == 0

BackupFrequency(day, week, month, year) ==
    [day |-> day, week |-> week, month |-> month, year |-> year]

week_keeps_from_today(f, today, date) ==
    IF f.week = ALL_VALUE THEN TRUE
    ELSE IF f.week # NO_VALUE
    THEN LET delta == (7 * f.week) - 7
             last_allowed_date == toordinal(today) - delta
         IN toordinal(date) >= last_allowed_date
    ELSE FALSE

\* the week tier of should_keep, for a date that is a Monday
week_keeps(f, today, date) ==
    IF f.week = ALL_VALUE THEN TRUE
    ELSE IF f.week # NO_VALUE
    THEN LET delta == isoweekday(today) + (7 * f.week) - 8
             last_allowed_date == toordinal(today) - delta
         IN toordinal(date) >= last_allowed_date
    ELSE FALSE

month_keeps_truncating(f, today, date) ==
    IF f.month = ALL_VALUE THEN TRUE
    ELSE IF f.month # NO_VALUE
    THEN LET y == today.year - ((f.month - today.month) \div 12)
             m == ((today.month - f.month) % 12) + 1
         IN toordinal(date) >= toordinal(Date(y, m, 1))
    ELSE FALSE

\* the month tier of should_keep, for a date that is the first of a month
month_keeps(f, today, date) ==
    IF f.month = ALL_VALUE THEN TRUE
    ELSE IF f.month # NO_VALUE
    THEN LET y == today.year + ((today.month - f.month) \div 12)
             m == ((today.month - f.month) % 12) + 1
         IN toordinal(date) >= toordinal(Date(y, m, 1))
    ELSE FALSE

year_keeps_exclusive(f, today, date) ==
    IF f.year = ALL_VALUE THEN TRUE
    ELSE IF f.year # NO_VALUE
    THEN toordinal(date) >= toordinal(Date(today.year - f.year, 1, 1))
    ELSE FALSE

\* the year tier of should_keep, for a date that is a first of January
year_keeps(f, today, date) ==
    IF f.year = ALL_VALUE THEN TRUE
    ELSE IF f.year # NO_VALUE
    THEN toordinal(date) >= toordinal(Date(today.year - f.year + 1, 1, 1))
    ELSE FALSE

should_keep_skip_week(f, today, date) ==
    IF f.day = ALL_VALUE THEN TRUE
    ELSE IF f.day # NO_VALUE /\ (toordinal(today) - toordinal(date)) + 1 <= f.day
    THEN TRUE
    ELSE IF f.day = NO_VALUE /\ isoweekday(date) = 1 /\ week_keeps(f, today, date)
    THEN TRUE
    ELSE IF date.day = 1
    THEN IF month_keeps(f, today, date) THEN TRUE
         ELSE date.month = 1 /\ year_keeps(f, today, date)
    ELSE FALSE

should_keep_off_by_one(f, today, date) ==
    IF f.day = ALL_VALUE THEN TRUE
    ELSE IF f.day # NO_VALUE /\ (toordinal(today) - toordinal(date)) <= f.day
    THEN TRUE
    ELSE IF isoweekday(date) = 1 /\ week_keeps(f, today, date) THEN TRUE
    ELSE IF date.day = 1
    THEN IF month_keeps(f, today, date) THEN TRUE
         ELSE date.month = 1 /\ year_keeps(f, today, date)
    ELSE FALSE

\* BackupFrequency.should_keep(date), with TimeReference.get().date() = today
should_keep(f, today, date) ==
    IF f.day = ALL_VALUE THEN TRUE
    ELSE IF f.day # NO_VALUE /\ (toordinal(today) - toordinal(date)) + 1 <= f.day
    THEN TRUE
    ELSE IF isoweekday(date) = 1 /\ week_keeps(f, today, date) THEN TRUE
    ELSE IF date.day = 1
    THEN IF month_keeps(f, today, date) THEN TRUE
         ELSE date.month = 1 /\ year_keeps(f, today, date)
    ELSE FALSE

should_save_any_tier(f, today) ==
    \E t \in {f.day, f.week, f.month, f.year} : t # NO_VALUE

\* MemoryStorage.should_save()
should_save(f, today) == should_keep(f, today, today)

(***************************************************************************)
(* SpecRetention: the reference date and a policy are drawn, then          *)
(* should_save or should_keep is applied once.                             *)
(***************************************************************************)
RefDates ==
    {Date(BaseYear, m, d) : m \in 1..RefMonths, d \in 1..RefDays}
    \cup {Date(BaseYear, m, 1) : m \in 1..12}

TierValues == {ALL_VALUE, NO_VALUE} \cup 1..MaxTier

SingleTierValues == 1..MaxSingleTier

Policies ==
    {BackupFrequency(d, w, m, y) :
        d \in TierValues, w \in TierValues, m \in TierValues, y \in TierValues}
    \cup {BackupFrequency(n, NO_VALUE, NO_VALUE, NO_VALUE) : n \in SingleTierValues}
    \cup {BackupFrequency(NO_VALUE, n, NO_VALUE, NO_VALUE) : n \in SingleTierValues}
    \cup {BackupFrequency(NO_VALUE, NO_VALUE, n, NO_VALUE) : n \in 1..MaxMonthTier}
    \cup {BackupFrequency(NO_VALUE, NO_VALUE, NO_VALUE, n) : n \in SingleTierValues}

\* the snapshot dates tried against a reference date: every day of the last
\* DaysBack days, and the first of every month of the years of the model
SnapshotDates(today) ==
    {fromordinal(toordinal(today) - k) : k \in 0..DaysBack}
    \cup {Date(y, m, 1) : y \in (BaseYear - YearsBack)..BaseYear, m \in 1..12}

NoDate == Date(0, 0, 0)

InitRetention ==
    /\ now \in RefDates
    /\ freq \in Policies
    /\ op = "none"
    /\ archive_date = NoDate
    /\ result = FALSE
    /\ IdleStore
    /\ IdleArchive
    /\ IdleRun
    /\ IdleProbe
    /\ IdleCall

ShouldSave ==
    /\ op = "none"
    /\ op' = "should_save"
    /\ result' = should_save(freq, now)
    /\ UNCHANGED <<callVars, probeVars, now, freq, archive_date, storeVars, archiveVars, runVars>>

ShouldKeep ==
    /\ op = "none"
    /\ \E d \in SnapshotDates(now) :
        /\ archive_date' = d
        /\ result' = should_keep(freq, now, d)
    /\ op' = "should_keep"
    /\ UNCHANGED <<callVars, probeVars, now, freq, storeVars, archiveVars, runVars>>

NextRetention == ShouldSave \/ ShouldKeep

SpecRetention == InitRetention /\ [][NextRetention]_vars

(***************************************************************************)
(* Strings are sequences of one-character strings.                         *)
(***************************************************************************)
Digits == <<"0", "1", "2", "3", "4", "5", "6", "7", "8", "9">>

IsDigit(c) == \E i \in 1..10 : Digits[i] = c

DigitValue(c) == (CHOOSE i \in 1..10 : Digits[i] = c) - 1

startswith(str, prefix) ==
    /\ Len(prefix) <= Len(str)
    /\ SubSeq(str, 1, Len(prefix)) = prefix

Contains(str, c) == \E i \in 1..Len(str) : str[i] = c

\* str.split(c, 1): the text before the first c and the text after it, or the
\* whole text alone when it holds no c
split_once(str, c) ==
    IF Contains(str, c)
    THEN LET i == CHOOSE j \in 1..Len(str) :
                      str[j] = c /\ \A k \in 1..(j - 1) : str[k] # c
         IN <<SubSeq(str, 1, i - 1), SubSeq(str, i + 1, Len(str))>>
    ELSE <<str>>

\* re.match(r"^[0-9]+$", str): `$` also matches before a final newline
match_digits(str) ==
    LET body == IF Len(str) > 1 /\ str[Len(str)] = "\n"
                THEN SubSeq(str, 1, Len(str) - 1) ELSE str
    IN Len(body) >= 1 /\ \A i \in 1..Len(body) : IsDigit(body[i])

\* int(str), for the texts match_digits lets through: int() strips the
\* white space around the digits
RECURSIVE int(_)
int(str) ==
    IF str = <<>> THEN 0
    ELSE IF str[Len(str)] = "\n" THEN int(SubSeq(str, 1, Len(str) - 1))
    ELSE 10 * int(SubSeq(str, 1, Len(str) - 1)) + DigitValue(str[Len(str)])

\* os.path.basename
basename(path) ==
    IF Contains(path, "/")
    THEN LET i == CHOOSE j \in 1..Len(path) :
                      path[j] = "/" /\ \A k \in (j + 1)..Len(path) : path[k] # "/"
         IN SubSeq(path, i + 1, Len(path))
    ELSE path

\* os.path.join(folder, filename), for a relative filename
path_join(folder, filename) ==
    IF folder # <<>> /\ folder[Len(folder)] = "/"
    THEN folder \o filename
    ELSE folder \o <<"/">> \o filename

\* "%04d" % n and "%02d" % n, as strftime("%Y%m%d") prints a date's fields
zero_pad(n, width) ==
    [i \in 1..width |-> Digits[((n \div (10 ^ (width - i))) % 10) + 1]]

strftime_Ymd(date) ==
    zero_pad(date.year, 4) \o zero_pad(date.month, 2) \o zero_pad(date.day, 2)

(***************************************************************************)
(* Action and the storages                                                 *)
(***************************************************************************)
\* Action.full_name
full_name(action) == action.prefix \o <<"_">> \o action.name

\* MemoryStorage._archive_name
archive_name(today, action_fullname, extension) ==
    strftime_Ymd(today) \o <<"_">> \o action_fullname \o <<".">> \o extension

\* the test LocalFolderStorage.list_archives and MemoryStorage.should_keep
\* make of a file name before they read its date; Nothing when the name is
\* skipped, else the date
Nothing == [year |-> 0, month |-> 0, day |-> 0]

parse_archive_date(filename) ==
    IF Len(filename) < 10 \/ filename[9] # "_"
        \/ Contains(SubSeq(filename, 1, 8), "_")
    THEN Nothing
    ELSE LET text == split_once(filename, "_")[1]
         IN IF ~match_digits(text) THEN Nothing
            ELSE LET y == int(SubSeq(text, 1, 4))
                     m == int(SubSeq(text, 5, 6))
                     d == int(SubSeq(text, 7, 8))
                 IN IF valid_date(y, m, d) THEN Date(y, m, d) ELSE Nothing

\* MemoryStorage.should_keep(archive)
storage_should_keep(storage, today, archive) ==
    LET date == parse_archive_date(basename(archive))
    IN IF date = Nothing THEN FALSE
       ELSE should_keep(storage.freq, today, date)

NoName == <<>>

\* LocalFolderStorage.list_archives: the full paths of the folder's files
\* that pass the test, of one action when action_fullname is given
local_list_archives(storage, entries, action_fullname) ==
    [ok |-> TRUE,
     names |->
        {path_join(storage.key, filename) : filename \in
            {f \in entries :
                /\ parse_archive_date(f) # Nothing
                /\ \/ action_fullname = NoName
                   \/ startswith(split_once(f, "_")[2],
                                 action_fullname \o <<".">>)}}]

\* GlacierStorage.list_archives: the names of the index file, of one action
\* when action_fullname is given; unpacking the split of a name that holds
\* no "_" raises ValueError
glacier_list_archives(storage, entries, action_fullname) ==
    IF \E f \in entries : Len(split_once(f, "_")) # 2
    THEN [ok |-> FALSE, names |-> {}]
    ELSE [ok |-> TRUE,
          names |->
            {f \in entries :
                \/ action_fullname = NoName
                \/ startswith(split_once(f, "_")[2], action_fullname \o <<".">>)}]

list_archives(storage, entries, action_fullname) ==
    IF storage.kind = "local"
    THEN local_list_archives(storage, entries, action_fullname)
    ELSE glacier_list_archives(storage, entries, action_fullname)

\* the entry storage.remove(archive) deletes: os.remove of a path of the
\* folder, or the option of the index file
entry_of(storage, archive) ==
    IF storage.kind = "local" THEN basename(archive) ELSE archive

\* the name StandardError: the builtin on Python 2, Exception on Python 3
StandardError(python) == IF python < 3 THEN "StandardError" ELSE "Exception"

\* whether `except cls` catches what was raised
isinstance(raised, cls) == cls = "Exception" \/ raised = cls

\* the class of what a failing operation of a storage raises: the OSError or
\* IOError of os.listdir, os.remove and shutil.copy for a folder, both of
\* them StandardError on Python 2; for a vault what its client or the parser
\* of its index file raises, env.raises
raised_by(storage, env) ==
    IF storage.kind = "local" THEN "StandardError" ELSE env.raises

\* clean_archives, were every archive it lists removed
RECURSIVE clean_from_all_listed(_, _, _, _, _, _, _)
clean_from_all_listed(action, i, sts, today, fs, rem, env) ==
    IF i > Len(action.storage_list)
    THEN [files |-> fs, removed |-> rem, error |-> FALSE, raised |-> "none"]
    ELSE LET s == action.storage_list[i]
             archives == list_archives(sts[s], fs[s], full_name(action))
         IN IF ~archives.ok
            THEN [files |-> fs, removed |-> rem, error |-> TRUE,
                  raised |-> "StandardError"]
            ELSE clean_from_all_listed(action, i + 1, sts, today,
                    [fs EXCEPT ![s] = @ \ {entry_of(sts[s], a) : a \in archives.names}],
                    rem \cup {<<s, a>> : a \in archives.names}, env)

\* clean_archives(action), from its i-th storage on. env.list_fails holds
\* the storages whose list_archives raises (a folder that cannot be read,
\* an index file that does not parse), env.remove_fails the storages whose
\* remove raises. The result: the entries left, the archives removed, and
\* the class of what was raised ("none" when nothing was); unpacking the
\* split of a name of the index file raises ValueError, a StandardError.
RECURSIVE clean_from(_, _, _, _, _, _, _)
clean_from(action, i, sts, today, fs, rem, env) ==
    IF i > Len(action.storage_list)
    THEN [files |-> fs, removed |-> rem, error |-> FALSE, raised |-> "none"]
    ELSE LET s == action.storage_list[i]
             archives == list_archives(sts[s], fs[s], full_name(action))
             old == {a \in archives.names :
                        ~storage_should_keep(sts[s], today, a)}
         IN IF s \in env.list_fails
            THEN [files |-> fs, removed |-> rem, error |-> TRUE,
                  raised |-> raised_by(sts[s], env)]
            ELSE IF ~archives.ok
            THEN [files |-> fs, removed |-> rem, error |-> TRUE,
                  raised |-> "StandardError"]
            ELSE IF old # {} /\ s \in env.remove_fails
            THEN [files |-> fs, removed |-> rem, error |-> TRUE,
                  raised |-> raised_by(sts[s], env)]
            ELSE clean_from(action, i + 1, sts, today,
                    [fs EXCEPT ![s] = @ \ {entry_of(sts[s], a) : a \in old}],
                    rem \cup {<<s, a>> : a \in old}, env)

clean_archives(action, sts, today, fs, rem, env) ==
    clean_from(action, 1, sts, today, fs, rem, env)

(***************************************************************************)
(* SpecArchive: a local folder and a glacier index file hold some entries; *)
(* list_archives and clean_archives are applied to them.                   *)
(***************************************************************************)
Web == <<"w", "e", "b">>
App == <<"a", "p", "p">>
Db == <<"d", "b">>
Tgz == <<"t", "g", "z">>
Folder == <<"/", "b", "a", "k">>
Vault == <<"e", "u", ":", "v">>

\* 20240101_web_app.tgz, bad_name.tgz, 20240101stray.tgz and others
Entries ==
    { <<"2", "0", "2", "4", "0", "1", "0", "1", "_">> \o Web \o <<"_">> \o App \o <<".">> \o Tgz,
      <<"b", "a", "d", "_", "n", "a", "m", "e", ".">> \o Tgz,
      <<"2", "0", "2", "4", "0", "1", "0", "1", "s", "t", "r", "a", "y", ".">> \o Tgz,
      <<"b", "a", "d", "_">> \o Web \o <<"_">> \o App \o <<".">> \o Tgz,
      <<"2", "0", "2", "2", "0", "1", "0", "2", "_">> \o Web \o <<"_">> \o App \o <<".">> \o Tgz,
      <<"2", "0", "2", "2", "0", "1", "0", "2", "_">> \o Web \o <<"_">> \o Db \o <<".">> \o Tgz }

ArchiveActions ==
    << [server_name |-> Web, prefix |-> Web, name |-> App, storage_list |-> <<1, 2>>],
       [server_name |-> Web, prefix |-> Web, name |-> Db, storage_list |-> <<1, 2>>] >>

ArchivePolicies ==
    { BackupFrequency(1, NO_VALUE, NO_VALUE, NO_VALUE),
      BackupFrequency(NO_VALUE, NO_VALUE, ALL_VALUE, NO_VALUE) }

EntrySets == {es \in SUBSET Entries : Cardinality(es) <= MaxEntries}

NoFailure == [list_fails |-> {}, remove_fails |-> {}, raises |-> "StandardError"]

InitArchive ==
    /\ now = Date(BaseYear, 1, 2)
    /\ IdleRetention
    /\ \E f \in ArchivePolicies :
          storages = << [kind |-> "local", key |-> Folder, freq |-> f],
                        [kind |-> "glacier", key |-> Vault, freq |-> f] >>
    /\ actions = ArchiveActions
    /\ \E e1 \in EntrySets, e2 \in EntrySets : files = <<e1, e2>>
    /\ removed = {}
    /\ listed = [call |-> "none"]
    /\ steps = 0
    /\ IdleRun
    /\ IdleProbe
    /\ IdleCall

\* storage.list_archives(action_fullname), of every archive when no name is given
ListArchives ==
    /\ steps < MaxOps
    /\ \E s \in 1..Len(storages), n \in {NoName} \cup {full_name(actions[i]) : i \in 1..Len(actions)} :
          listed' = [call |-> "list", storage |-> s, action_fullname |-> n,
                     outcome |-> list_archives(storages[s], files[s], n)]
    /\ steps' = steps + 1
    /\ UNCHANGED <<callVars, probeVars, now, retentionVars, storeVars, runVars>>

\* the `clean` command's clean_archives(action)
CleanArchives ==
    /\ steps < MaxOps
    /\ \E i \in 1..Len(actions) :
          LET r == clean_archives(actions[i], storages, now, files, removed, NoFailure)
          IN /\ files' = r.files
             /\ removed' = r.removed
             /\ listed' = [call |-> "clean", action |-> i, error |-> r.error]
    /\ steps' = steps + 1
    /\ UNCHANGED <<callVars, probeVars, now, retentionVars, storages, actions, runVars>>

NextArchive == ListArchives \/ CleanArchives

SpecArchive == InitArchive /\ [][NextArchive]_vars

(***************************************************************************)
(* Report: three mappings from a server name to the list of its entries.   *)
(***************************************************************************)
add_entry(entries, server, details) ==
    IF server \in DOMAIN entries
    THEN [entries EXCEPT ![server] = Append(@, details)]
    ELSE entries @@ (server :> <<details>>)

add_issue(r, server, error_details) ==
    [r EXCEPT !.issues = add_entry(@, server, error_details)]

add_success(r, server, success_details) ==
    [r EXCEPT !.success = add_entry(@, server, success_details)]

add_warning(r, server, warning_details) ==
    [r EXCEPT !.warnings = add_entry(@, server, warning_details)]

RECURSIVE count_entries(_)
count_entries(entries) ==
    IF DOMAIN entries = {} THEN 0
    ELSE LET server == CHOOSE s \in DOMAIN entries : TRUE
         IN Len(entries[server])
            + count_entries([s \in DOMAIN entries \ {server} |-> entries[s]])

issue_count(r) == count_entries(r.issues)

warning_count(r) == count_entries(r.warnings)

is_empty_but_for_warnings(r) ==
    /\ \A s \in DOMAIN r.issues : Len(r.issues[s]) = 0
    /\ \A s \in DOMAIN r.success : Len(r.success[s]) = 0

is_empty(r) ==
    /\ \A s \in DOMAIN r.issues : Len(r.issues[s]) = 0
    /\ \A s \in DOMAIN r.warnings : Len(r.warnings[s]) = 0
    /\ \A s \in DOMAIN r.success : Len(r.success[s]) = 0

is_success(r) == ~is_empty(r) /\ issue_count(r) = 0

(***************************************************************************)
(* BackupConfig._load_conf. The configuration is the list of the backups   *)
(* its server blocks declare, each a [server_name, prefix, name, kind]     *)
(* with prefix NoName when the block gives none, and the list of the       *)
(* report types of its report section.                                     *)
(***************************************************************************)
\* str.strip(c)
RECURSIVE strip(_, _)
strip(str, c) ==
    IF str # <<>> /\ str[1] = c THEN strip(Tail(str), c)
    ELSE IF str # <<>> /\ str[Len(str)] = c
    THEN strip(SubSeq(str, 1, Len(str) - 1), c)
    ELSE str

\* the prefix _parse_action_common returns
parse_action_common(descr) ==
    IF descr.prefix = NoName THEN descr.server_name ELSE descr.prefix

\* _parse_file_action_conf and _parse_db_action_conf, then add_storage
parse_action_conf(descr, storage_list) ==
    [server_name |-> descr.server_name,
     prefix |-> strip(parse_action_common(descr), "_"),
     name |-> descr.name,
     kind |-> descr.kind,
     storage_list |-> storage_list]

\* the check that no two actions have the same full_name, as compared by
\* (prefix, name) pairs
same_prefix_and_name(acts) ==
    \E i, j \in 1..Len(acts) :
        i # j /\ acts[i].prefix = acts[j].prefix /\ acts[i].name = acts[j].name

\* the check that no two actions have the same full_name
same_full_name(acts) ==
    \E i, j \in 1..Len(acts) :
        i # j /\ full_name(acts[i]) = full_name(acts[j])

ReportTypes == {"email", "file", "webhook", "syslog"}

\* the actions and report targets of a configuration, or the error raised;
\* actions holds the actions built before the error
load_conf(conf, storage_count) ==
    LET acts == [i \in 1..Len(conf.actions) |->
                    parse_action_conf(conf.actions[i],
                                      [s \in 1..storage_count |-> s])]
    IN IF same_full_name(acts)
          \/ \E i \in 1..Len(conf.reports) : conf.reports[i] \notin ReportTypes
       THEN [error |-> "ConfigError", actions |-> acts, report_list |-> <<>>]
       ELSE [error |-> "none", actions |-> acts, report_list |-> conf.reports]

(***************************************************************************)
(* run_backup, do_backup                                                   *)
(***************************************************************************)
Sql == <<"s", "q", "l">>
Gz == <<"g", "z">>

\* the extension run_backup hands to storage.save
extension(action) ==
    IF action.kind = "file" THEN Tgz ELSE Sql \o <<".">> \o Gz

\* the loop of run_backup over the storages, from the i-th one on.
\* env.save_fails holds the storages whose save raises.
RECURSIVE save_from(_, _, _, _, _, _, _)
save_from(action, i, sts, today, fs, calls, env) ==
    IF i > Len(action.storage_list)
    THEN [files |-> fs, calls |-> calls, error |-> FALSE, raised |-> "none"]
    ELSE LET s == action.storage_list[i]
         IN IF ~should_save(sts[s].freq, today)
            THEN save_from(action, i + 1, sts, today, fs, calls, env)
            ELSE IF s \in env.save_fails
            THEN [files |-> fs,
                  calls |-> Append(calls, [storage |-> s, ok |-> FALSE]),
                  error |-> TRUE, raised |-> raised_by(sts[s], env)]
            ELSE save_from(action, i + 1, sts, today,
                    [fs EXCEPT ![s] = @ \cup
                        {archive_name(today, full_name(action), extension(action))}],
                    Append(calls, [storage |-> s, ok |-> TRUE]), env)

\* FileAction.run_backup and DbAction.run_backup: the fetch, which raises
\* the RuntimeError of check_run_cmd when env.fetch_fails, then the loop
\* over the storages
run_backup(action, sts, today, fs, env) ==
    IF env.fetch_fails
    THEN [files |-> fs, calls |-> <<>>, stopped |-> "fetch",
          raised |-> "StandardError"]
    ELSE LET r == save_from(action, 1, sts, today, fs, <<>>, env)
         IN [files |-> r.files, calls |-> r.calls,
             stopped |-> IF r.error THEN "save" ELSE "none",
             raised |-> r.raised]

\* the entries do_backup adds to the Report
issue_entry(action) ==
    [text |-> "Unable to save data for", about |-> full_name(action)]

success_entry(action) ==
    [text |-> "have been successfully backuped", about |-> full_name(action)]

\* the try block of do_backup once clean_archives(action) returned or
\* raised (c): action.run_backup() is called when it returned. The result
\* holds where the block stopped ("none" when it ran to its end) and the
\* class of what was raised.
try_after_clean(action, sts, today, c, env) ==
    IF c.error
    THEN [files |-> c.files, removed |-> c.removed, calls |-> <<>>,
          stopped |-> "clean", raised |-> c.raised]
    ELSE run_backup(action, sts, today, c.files, env)
            @@ [removed |-> c.removed]

\* the except and else clauses of do_backup, t being what its try block
\* did: `except StandardError` catches what was raised when it is an
\* instance of the StandardError of the interpreter, and what it does not
\* catch leaves do_backup
except_else(action, rep, t, python) ==
    [files |-> t.files, removed |-> t.removed, calls |-> t.calls,
     report |-> IF t.raised = "none"
                THEN add_success(rep, action.server_name, success_entry(action))
                ELSE IF isinstance(t.raised, StandardError(python))
                THEN add_issue(rep, action.server_name, issue_entry(action))
                ELSE rep,
     stopped |-> t.stopped,
     raised |-> IF isinstance(t.raised, StandardError(python)) THEN "none"
                ELSE t.raised]

\* do_backup(action, report): where its try block stopped, and the class
\* of the exception that left do_backup ("none" when none did)
do_backup(action, sts, today, fs, rem, rep, env) ==
    except_else(action, rep,
        try_after_clean(action, sts, today,
            clean_archives(action, sts, today, fs, rem, env), env),
        env.python)

(***************************************************************************)
(* main, command `run`                                                     *)
(***************************************************************************)
EVENT_COUNT == 3

\* what main holds once BackupConfig(config_file) returned or raised, were
\* a ConfigError logged and the actions built so far run
load_in_main_lenient(conf, storage_count) ==
    LET r == load_conf(conf, storage_count)
    IN [uncaught |-> "none", actions |-> r.actions, report_list |-> r.report_list]

\* what main holds once BackupConfig(config_file) returned or raised:
\* nothing of main catches a ConfigError; glob_targets with no target given
\* returns every action
load_in_main(conf, storage_count) ==
    LET r == load_conf(conf, storage_count)
    IN IF r.error # "none"
       THEN [uncaught |-> r.error, actions |-> <<>>, report_list |-> <<>>]
       ELSE [uncaught |-> "none", actions |-> r.actions, report_list |-> r.report_list]

\* where main is, from the indices of its two loops
position(na, acts, nt, targets) ==
    IF na <= Len(acts) THEN "backup"
    ELSE IF nt <= Len(targets) THEN "report"
    ELSE "done"

\* KillEventHandler._on_signal, when the signals received lie within INTERVAL
on_signal(count) ==
    IF count >= EVENT_COUNT THEN "exit" ELSE "KeyboardInterrupt"

(***************************************************************************)
(* SpecRun: a configuration, two storages and their content are drawn;     *)
(* main loads the configuration, handles the actions one by one, then      *)
(* sends the report to the targets one by one. A signal may arrive at any  *)
(* point.                                                                  *)
(***************************************************************************)
W == <<"w">>
X == <<"x">>
WA == <<"w", "_", "a">>
AB == <<"a", "_", "b">>
B == <<"b">>
C == <<"c">>

\* w_a_b (a folder of server w), w_a_b again (a database of server x, under
\* the prefix w_a_) and x_c (a folder of server x)
RunDescriptors ==
    { [server_name |-> W, prefix |-> NoName, name |-> AB, kind |-> "file"],
      [server_name |-> X, prefix |-> WA \o <<"_">>, name |-> B, kind |-> "mysql"],
      [server_name |-> X, prefix |-> NoName, name |-> C, kind |-> "file"] }

RunReports == {"syslog", "sms"}

SeqsUpTo(S, n) == UNION {[1..k -> S] : k \in 0..n}

RunConfigs ==
    {[actions |-> a, reports |-> r] :
        a \in SeqsUpTo(RunDescriptors, MaxActions),
        r \in SeqsUpTo(RunReports, MaxTargets) \ {<<>>}}

\* kept today / not saved today (a Tuesday)
RunPolicies ==
    { BackupFrequency(1, NO_VALUE, NO_VALUE, NO_VALUE),
      BackupFrequency(NO_VALUE, 1, NO_VALUE, NO_VALUE) }

\* 20220102_w_a_b.tgz
OldArchive ==
    <<"2", "0", "2", "2", "0", "1", "0", "2", "_">> \o W \o <<"_">> \o AB \o <<".">> \o Tgz

\* an entry of the index file that holds no "_"
Stray == <<"2", "0", "2", "4", "0", "1", "0", "1", "s", "t", "r", "a", "y", ".">> \o Tgz

\* what one turn of the loop of main may meet, under the interpreter of the
\* process. The first operation that raises ends the try block of
\* do_backup, so at most one failing operation is drawn for a turn; only an
\* operation of the vault raises what env.raises names.
RunEnvs(python) ==
    {env \in [list_fails : SUBSET {2}, remove_fails : SUBSET {1},
              fetch_fails : BOOLEAN, save_fails : SUBSET {1, 2},
              raises : {"StandardError", "Exception"}, python : {python}] :
        /\ Cardinality(env.list_fails) + Cardinality(env.remove_fails)
              + Cardinality(env.save_fails)
              + (IF env.fetch_fails THEN 1 ELSE 0) <= 1
        /\ env.raises = "Exception" => 2 \in env.list_fails \cup env.save_fails}

\* args holds the interpreter the script runs under, Python 2 or Python 3
InitRun ==
    /\ now = Date(BaseYear, 1, 3)
    /\ IdleRetention
    /\ IdleArchive
    /\ config \in RunConfigs
    /\ \E f1 \in RunPolicies, f2 \in RunPolicies :
          storages = << [kind |-> "local", key |-> Folder, freq |-> f1],
                        [kind |-> "glacier", key |-> Vault, freq |-> f2] >>
    /\ actions = <<>>
    /\ \E e1 \in {{}, {OldArchive}}, e2 \in {{}, {Stray}} : files = <<e1, e2>>
    /\ removed = {}
    /\ pc = "start"
    /\ uncaught = "none"
    /\ report_list = <<>>
    /\ next_action = 1
    /\ report = Report
    /\ outcomes = <<>>
    /\ save_calls = <<>>
    /\ next_target = 1
    /\ delivered = <<>>
    /\ quit_msg = 0
    /\ exit_code = -1
    /\ IdleProbe
    /\ \E python \in {2, 3} : args = [python |-> python]
    /\ returned = [fn |-> "none"]

\* conf = BackupConfig(config_file); actions = glob_targets(conf, []);
\* report = Report()
LoadConf ==
    /\ pc = "start"
    /\ LET m == load_in_main(config, Len(storages))
       IN /\ uncaught' = m.uncaught
          /\ actions' = m.actions
          /\ report_list' = m.report_list
          /\ pc' = IF m.uncaught # "none" THEN "crashed"
                   ELSE position(1, m.actions, 1, m.report_list)
          /\ exit_code' = IF m.uncaught # "none" THEN 1
                          ELSE IF position(1, m.actions, 1, m.report_list) = "done"
                          THEN 0 ELSE -1
    /\ report' = Report
    /\ UNCHANGED <<callVars, probeVars, now, retentionVars, archiveVars, config, storages, files,
                   removed, next_action, outcomes, save_calls, next_target,
                   delivered, quit_msg>>

\* main after do_backup(action, report) returned r, or was left by an
\* exception no handler of main catches; p is where the loops go on
Backed(r, p) ==
    /\ files' = r.files
    /\ removed' = r.removed
    /\ report' = r.report
    /\ outcomes' = Append(outcomes, r.stopped)
    /\ save_calls' = save_calls \o
          [k \in 1..Len(r.calls) |->
              [action |-> next_action, storage |-> r.calls[k].storage,
               ok |-> r.calls[k].ok]]
    /\ next_action' = next_action + 1
    /\ uncaught' = r.raised
    /\ pc' = IF r.raised # "none" THEN "crashed" ELSE p
    /\ exit_code' = IF r.raised # "none" THEN 1
                    ELSE IF p = "done" THEN 0 ELSE -1

\* one turn of `for action in actions: do_backup(action, report)`
DoBackup ==
    /\ pc = "backup"
    /\ \E env \in RunEnvs(args.python) :
          Backed(do_backup(actions[next_action], storages, now, files, removed,
                           report, env),
                 position(next_action + 1, actions, next_target, report_list))
    /\ UNCHANGED <<callVars, probeVars, now, retentionVars, archiveVars, config, storages, actions,
                   report_list, next_target, delivered, quit_msg>>

\* one turn of the loop of do_report: report_target.report(report), which
\* sends nothing when the report is empty; an error `except StandardError`
\* catches is logged, another one leaves main
DoReport ==
    /\ pc = "report"
    /\ \E e \in {"none", "StandardError", "Exception"} :
          LET raised == IF is_empty(report) THEN "none" ELSE e
              left == IF raised = "none"
                         \/ isinstance(raised, StandardError(args.python))
                      THEN "none" ELSE raised
              p == position(next_action, actions, next_target + 1, report_list)
          IN /\ delivered' = Append(delivered,
                    [target |-> next_target, report |-> report,
                     sent |-> ~is_empty(report) /\ raised = "none"])
             /\ uncaught' = left
             /\ pc' = IF left # "none" THEN "crashed" ELSE p
             /\ exit_code' = IF left # "none" THEN 1
                            ELSE IF p = "done" THEN 0 ELSE -1
    /\ next_target' = next_target + 1
    /\ UNCHANGED <<callVars, probeVars, now, retentionVars, archiveVars, storeVars, config,
                   report_list, next_action, report, outcomes, save_calls,
                   quit_msg>>

\* SIGINT or SIGTERM while main is in its try block: _on_signal raises
\* KeyboardInterrupt, main logs "Backup aborted. Sending reports..." and
\* returns 0
Interrupt ==
    /\ pc \in {"start", "backup", "report"}
    /\ quit_msg' = quit_msg + 1
    /\ pc' = IF on_signal(quit_msg + 1) = "exit" THEN "killed" ELSE "aborted"
    /\ exit_code' = IF on_signal(quit_msg + 1) = "exit" THEN 1 ELSE 0
    /\ UNCHANGED <<callVars, probeVars, now, retentionVars, archiveVars, storeVars, config, uncaught,
                   report_list, next_action, report, outcomes, save_calls,
                   next_target, delivered>>

NextRun == LoadConf \/ DoBackup \/ DoReport \/ Interrupt

SpecRun == InitRun /\ [][NextRun]_vars

(***************************************************************************)
(* WriteTestCache and the write tests. A cache maps a key to TRUE or FALSE;*)
(* a key it does not hold was not tested. The state the checks work on is  *)
(* a record [folder_cache, glacier_vault_cache, probes, checks, files].    *)
(***************************************************************************)
is_folder_success(cache, folder) ==
    IF folder \in DOMAIN cache
    THEN (IF cache[folder] THEN "True" ELSE "False")
    ELSE "None"

set_folder_success(cache, folder, value) ==
    [k \in DOMAIN cache \cup {folder} |-> IF k = folder THEN value ELSE cache[k]]

is_glacier_success(cache, vault) ==
    IF vault \in DOMAIN cache
    THEN (IF cache[vault] THEN "True" ELSE "False")
    ELSE "None"

set_glacier_success(cache, vault, value) ==
    [k \in DOMAIN cache \cup {vault} |-> IF k = vault THEN value ELSE cache[k]]

\* the name of the archive _check_glacier_access sends and deletes
ProbeName ==
    <<"b", "a", "c", "k", "u", "p", " ", "g", "l", "a", "c", "i", "e", "r", " ",
      "a", "c", "c", "e", "s", "s", " ", "t", "e", "s", "t">>

\* Action.check_folder_writable, were a failed test left out of the cache
check_folder_writable_unrecorded(folder, st, env) ==
    LET cache_value == is_folder_success(st.folder_cache, folder)
        asked == [st EXCEPT !.checks.folder[folder] = @ + 1]
    IN IF cache_value = "None"
       THEN LET tested == [asked EXCEPT !.probes.folder[folder] = @ + 1]
            IN IF folder \in env.writable
               THEN [st |-> [tested EXCEPT !.folder_cache =
                                set_folder_success(@, folder, TRUE)],
                     errors |-> <<>>]
               ELSE [st |-> tested,
                     errors |-> <<[text |-> "Unable to write to folder",
                                   key |-> folder, cached |-> FALSE]>>]
       ELSE IF cache_value = "False"
       THEN [st |-> asked,
             errors |-> <<[text |-> "Unable to write to folder",
                           key |-> folder, cached |-> TRUE]>>]
       ELSE [st |-> asked, errors |-> <<>>]

\* Action.check_folder_writable, were a cached failure answered with no
\* diagnostic
check_folder_writable_forgiving(folder, st, env) ==
    LET cache_value == is_folder_success(st.folder_cache, folder)
        asked == [st EXCEPT !.checks.folder[folder] = @ + 1]
    IN IF cache_value = "None"
       THEN LET tested == [asked EXCEPT !.probes.folder[folder] = @ + 1]
            IN IF folder \in env.writable
               THEN [st |-> [tested EXCEPT !.folder_cache =
                                set_folder_success(@, folder, TRUE)],
                     errors |-> <<>>]
               ELSE [st |-> [tested EXCEPT !.folder_cache =
                                set_folder_success(@, folder, FALSE)],
                     errors |-> <<[text |-> "Unable to write to folder",
                                   key |-> folder, cached |-> FALSE]>>]
       ELSE [st |-> asked, errors |-> <<>>]

\* Action.check_folder_writable(folder): env.writable holds the folders a
\* file can be written to
check_folder_writable(folder, st, env) ==
    LET cache_value == is_folder_success(st.folder_cache, folder)
        asked == [st EXCEPT !.checks.folder[folder] = @ + 1]
    IN IF cache_value = "None"
       THEN LET tested == [asked EXCEPT !.probes.folder[folder] = @ + 1]
            IN IF folder \in env.writable
               THEN [st |-> [tested EXCEPT !.folder_cache =
                                set_folder_success(@, folder, TRUE)],
                     errors |-> <<>>]
               ELSE [st |-> [tested EXCEPT !.folder_cache =
                                set_folder_success(@, folder, FALSE)],
                     errors |-> <<[text |-> "Unable to write to folder",
                                   key |-> folder, cached |-> FALSE]>>]
       ELSE IF cache_value = "False"
       THEN [st |-> asked,
             errors |-> <<[text |-> "Unable to write to folder",
                           key |-> folder, cached |-> TRUE]>>]
       ELSE [st |-> asked, errors |-> <<>>]

\* GlacierStorage._check_glacier_access of the storage s: env.glacier tells
\* whether the upload raises, the deletion raises, or both succeed; an
\* upload adds ProbeName to the index file, a deletion removes it. With
\* "send_raises" the upload raises an exception of the glacier client that
\* derives from Exception only (boto's NoAuthHandlerFound, botocore's
\* ClientError): `except StandardError` catches it on Python 3 alone, and
\* it leaves the method as `raised` otherwise.
check_glacier_access(s, sts, st, env) ==
    LET vault == sts[s].key
        cache_value == is_glacier_success(st.glacier_vault_cache, vault)
        asked == [st EXCEPT !.checks.glacier[vault] = @ + 1]
        e == IF env.glacier = "send_raises" THEN "Exception"
             ELSE "StandardError"
    IN IF cache_value = "None"
       THEN LET tested == [asked EXCEPT !.probes.glacier[vault] = @ + 1]
            IN IF env.glacier = "ok"
               THEN [st |-> [tested EXCEPT
                                !.glacier_vault_cache =
                                    set_glacier_success(@, vault, TRUE),
                                !.files[s] = @ \ {ProbeName}],
                     errors |-> <<>>, raised |-> "none"]
               ELSE IF ~isinstance(e, StandardError(env.python))
               THEN [st |-> tested, errors |-> <<>>, raised |-> e]
               ELSE [st |-> [tested EXCEPT
                                !.glacier_vault_cache =
                                    set_glacier_success(@, vault, FALSE),
                                !.files[s] = IF env.glacier = "delete_fails"
                                             THEN @ \cup {ProbeName} ELSE @],
                     errors |-> <<[text |-> "Unable to write to glacier vault",
                                   key |-> vault, cached |-> FALSE]>>,
                     raised |-> "none"]
       ELSE IF cache_value = "False"
       THEN [st |-> asked,
             errors |-> <<[text |-> "Unable to write to glacier vault",
                           key |-> vault, cached |-> TRUE]>>,
             raised |-> "none"]
       ELSE [st |-> asked, errors |-> <<>>, raised |-> "none"]

\* storage.check_writable(): the state it leaves, the diagnostics it
\* returns, and the exception that leaves it
check_writable(s, sts, st, env) ==
    IF sts[s].kind = "local"
    THEN LET r == check_folder_writable(sts[s].key, st, env)
         IN [st |-> r.st, errors |-> r.errors, raised |-> "none"]
    ELSE check_glacier_access(s, sts, st, env)

\* the loop of check_dest_access over the storages, from the i-th one on:
\* what check_writable raises is caught by `except StandardError` and its
\* message appended, or leaves the loop
RECURSIVE check_storages_from(_, _, _, _, _, _)
check_storages_from(action, i, sts, st, errors, env) ==
    IF i > Len(action.storage_list)
    THEN [st |-> st, errors |-> errors, raised |-> "none"]
    ELSE LET r == check_writable(action.storage_list[i], sts, st, env)
         IN IF r.raised = "none"
            THEN check_storages_from(action, i + 1, sts, r.st,
                                     errors \o r.errors, env)
            ELSE IF isinstance(r.raised, StandardError(env.python))
            THEN check_storages_from(action, i + 1, sts, r.st,
                    Append(errors, [text |-> "to_str(e)",
                                    key |-> sts[action.storage_list[i]].key,
                                    cached |-> FALSE]), env)
            ELSE [st |-> r.st, errors |-> errors, raised |-> r.raised]

\* Action.check_dest_access()
check_dest_access(action, sts, st, env) ==
    LET r == check_folder_writable(action.dest_folder, st, env)
    IN check_storages_from(action, 1, sts, r.st, r.errors, env)

(***************************************************************************)
(* SpecProbe: two actions share a destination folder and three storages,   *)
(* two of them over the same folder; the checks are applied in any order.  *)
(***************************************************************************)
Tmp == <<"/", "t", "m", "p">>

ProbeFolders == {Folder, Tmp}

ProbeVaults == {Vault}

ProbeActions ==
    << [server_name |-> W, prefix |-> W, name |-> AB, dest_folder |-> Tmp,
        storage_list |-> <<1, 2, 3>>],
       [server_name |-> X, prefix |-> X, name |-> C, dest_folder |-> Folder,
        storage_list |-> <<1, 2>>] >>

ProbeEnvs ==
    {[writable |-> w, glacier |-> g, python |-> p] :
        w \in SUBSET ProbeFolders,
        g \in {"ok", "send_fails", "delete_fails", "send_raises"},
        p \in {2, 3}}

ProbeState ==
    [folder_cache |-> folder_cache, glacier_vault_cache |-> glacier_vault_cache,
     probes |-> probes, checks |-> checks, files |-> files]

InitProbe ==
    /\ now = Date(BaseYear, 1, 3)
    /\ IdleRetention
    /\ IdleArchive
    /\ IdleRun
    /\ storages = << [kind |-> "local", key |-> Folder, freq |-> NoPolicy],
                     [kind |-> "glacier", key |-> Vault, freq |-> NoPolicy],
                     [kind |-> "local", key |-> Folder, freq |-> NoPolicy] >>
    /\ actions = ProbeActions
    /\ files = <<{}, {}, {}>>
    /\ removed = {}
    /\ folder_cache = <<>>
    /\ glacier_vault_cache = <<>>
    /\ probes = [folder |-> [f \in ProbeFolders |-> 0],
                 glacier |-> [v \in ProbeVaults |-> 0]]
    /\ checks = [folder |-> [f \in ProbeFolders |-> 0],
                 glacier |-> [v \in ProbeVaults |-> 0]]
    /\ detected_errors = <<>>
    /\ check_steps = 0
    /\ IdleCall

\* the state a check leaves, and what it returned; an exception that
\* leaves the check is caught nowhere (test_backup and main have
\* `except StandardError` too) and ends the script
Checked(r, raised) ==
    /\ uncaught = "none"
    /\ uncaught' = raised
    /\ folder_cache' = r.st.folder_cache
    /\ glacier_vault_cache' = r.st.glacier_vault_cache
    /\ probes' = r.st.probes
    /\ checks' = r.st.checks
    /\ files' = r.st.files
    /\ detected_errors' = r.errors
    /\ check_steps' = check_steps + 1
    /\ UNCHANGED <<callVars, now, retentionVars, archiveVars, storages, actions,
                   removed, config, pc, report_list, next_action, report,
                   outcomes, save_calls, next_target, delivered, quit_msg,
                   exit_code>>

CheckFolderWritable ==
    /\ check_steps < MaxChecks
    /\ \E folder \in ProbeFolders, env \in ProbeEnvs :
          Checked(check_folder_writable(folder, ProbeState, env), "none")

CheckWritable ==
    /\ check_steps < MaxChecks
    /\ \E s \in 1..Len(storages), env \in ProbeEnvs :
          LET r == check_writable(s, storages, ProbeState, env)
          IN Checked(r, r.raised)

CheckDestAccess ==
    /\ check_steps < MaxChecks
    /\ \E i \in 1..Len(actions), env \in ProbeEnvs :
          LET r == check_dest_access(actions[i], storages, ProbeState, env)
          IN Checked(r, r.raised)

NextProbe == CheckFolderWritable \/ CheckWritable \/ CheckDestAccess

SpecProbe == InitProbe /\ [][NextProbe]_vars

(***************************************************************************)
(* SpecShared: three actions of different full_name share a local folder   *)
(* and a glacier vault. Day after day (one process a day) their backups    *)
(* are run, and their archives listed and cleaned.                         *)
(***************************************************************************)
AppV2 == <<"a", "p", "p", ".", "v", "2">>

\* web_app, web_app.v2 (folders) and web_db (a database)
SharedActions ==
    << [server_name |-> Web, prefix |-> Web, name |-> App, kind |-> "file",
        storage_list |-> <<1, 2>>],
       [server_name |-> Web, prefix |-> Web, name |-> AppV2, kind |-> "file",
        storage_list |-> <<1, 2>>],
       [server_name |-> Web, prefix |-> Web, name |-> Db, kind |-> "mysql",
        storage_list |-> <<1, 2>>] >>

FirstDay == Date(BaseYear, 1, 2)

SharedDays == {fromordinal(toordinal(FirstDay) + k) : k \in 0..MaxDays}

NoRunFailure ==
    [list_fails |-> {}, remove_fails |-> {}, fetch_fails |-> FALSE,
     save_fails |-> {}, raises |-> "StandardError", python |-> 3]

InitShared ==
    /\ now = FirstDay
    /\ IdleRetention
    /\ IdleRun
    /\ IdleProbe
    /\ IdleCall
    /\ \E f \in ArchivePolicies :
          storages = << [kind |-> "local", key |-> Folder, freq |-> f],
                        [kind |-> "glacier", key |-> Vault, freq |-> f] >>
    /\ actions = SharedActions
    /\ files = <<{}, {}>>
    /\ removed = {}
    /\ listed = [call |-> "none"]
    /\ steps = 0

\* action.run_backup() of one action, no command failing
SharedRunBackup ==
    /\ steps < MaxSharedOps
    /\ \E i \in 1..Len(actions) :
          LET r == run_backup(actions[i], storages, now, files, NoRunFailure)
          IN /\ files' = r.files
             /\ listed' = [call |-> "backup", action |-> i]
    /\ steps' = steps + 1
    /\ UNCHANGED <<callVars, probeVars, now, retentionVars, runVars, storages, actions,
                   removed>>

\* storage.list_archives(action.full_name)
SharedList ==
    /\ steps < MaxSharedOps
    /\ \E s \in 1..Len(storages), i \in 1..Len(actions) :
          listed' = [call |-> "list", storage |-> s, action |-> i,
                     outcome |-> list_archives(storages[s], files[s],
                                               full_name(actions[i]))]
    /\ steps' = steps + 1
    /\ UNCHANGED <<callVars, probeVars, now, retentionVars, runVars, storeVars>>

\* clean_archives(action)
SharedClean ==
    /\ steps < MaxSharedOps
    /\ \E i \in 1..Len(actions) :
          LET r == clean_archives(actions[i], storages, now, files, removed,
                                  NoRunFailure)
          IN /\ files' = r.files
             /\ removed' = r.removed
             /\ listed' = [call |-> "clean", action |-> i,
                           removed |-> r.removed \ removed]
    /\ steps' = steps + 1
    /\ UNCHANGED <<callVars, probeVars, now, retentionVars, runVars, storages, actions>>

\* the process of the next day: TimeReference._now is read once per process
SharedNextDay ==
    /\ toordinal(now) - toordinal(FirstDay) < MaxDays
    /\ now' = fromordinal(toordinal(now) + 1)
    /\ UNCHANGED <<callVars, probeVars, retentionVars, runVars, storeVars, archiveVars>>

NextShared == SharedRunBackup \/ SharedList \/ SharedClean \/ SharedNextDay

SpecShared == InitShared /\ [][NextShared]_vars

(***************************************************************************)
(* glob_target, glob_targets. An action is known by its index in the list  *)
(* of the resolved actions.                                                *)
(***************************************************************************)
\* str.split(c, maxsplit)
RECURSIVE split(_, _, _)
split(str, c, maxsplit) ==
    IF maxsplit = 0 \/ ~Contains(str, c) THEN <<str>>
    ELSE <<split_once(str, c)[1]>> \o split(split_once(str, c)[2], c, maxsplit - 1)

\* fnmatch.fnmatch(name, pat) on a POSIX system, for patterns made of
\* literal characters, `*` and `?`
RECURSIVE fnmatch(_, _)
fnmatch(name, pat) ==
    IF pat = <<>> THEN name = <<>>
    ELSE IF pat[1] = "*"
    THEN fnmatch(name, Tail(pat)) \/ (name # <<>> /\ fnmatch(Tail(name), pat))
    ELSE IF name = <<>> THEN FALSE
    ELSE (pat[1] = "?" \/ pat[1] = name[1]) /\ fnmatch(Tail(name), Tail(pat))

\* isinstance(action, FileAction), isinstance(action, DbAction)
is_file_action(action) == action.kind = "file"

is_db_action(action) == action.kind \in {"mysql", "postgres", "mongo"}

\* DbAction.db_type, as a text
db_type(action) ==
    IF action.kind = "mysql" THEN <<"m", "y", "s", "q", "l">>
    ELSE IF action.kind = "postgres"
    THEN <<"p", "o", "s", "t", "g", "r", "e", "s">>
    ELSE <<"m", "o", "n", "g", "o">>

\* the test glob_target makes of an action on the second part of an
\* identifier, and on an identifier without colon after the server name
matches_target(action, pattern) ==
    \/ fnmatch(action.name, pattern)
    \/ fnmatch(full_name(action), pattern)
    \/ is_file_action(action) /\ fnmatch(action.remote_folder, pattern)
    \/ is_db_action(action) /\ fnmatch(action.database, pattern)
    \/ is_db_action(action) /\ fnmatch(db_type(action), pattern)

\* the indices of 1..n that lie in a set, in order
RECURSIVE in_order(_, _)
in_order(indices, n) ==
    IF n = 0 THEN <<>>
    ELSE in_order(indices, n - 1) \o (IF n \in indices THEN <<n>> ELSE <<>>)

Unknown(identifier) ==
    [error |-> "RuntimeError", text |-> "Unknown target", identifier |-> identifier]

\* glob_target, were one matching part of the identifier enough
glob_target_either_part(acts, identifier) ==
    IF Contains(identifier, ":")
    THEN LET parts == split(identifier, ":", 2)
         IN IF Len(parts) # 2
            THEN [error |-> "ValueError", text |-> "too many values to unpack",
                  identifier |-> <<>>]
            ELSE LET results == in_order({i \in 1..Len(acts) :
                        \/ fnmatch(acts[i].server_name, parts[1])
                        \/ fnmatch(acts[i].prefix, parts[1])
                        \/ matches_target(acts[i], parts[2])},
                        Len(acts))
                 IN IF results = <<>> THEN Unknown(identifier)
                    ELSE [error |-> "none", results |-> results]
    ELSE LET results == in_order({i \in 1..Len(acts) :
                \/ fnmatch(acts[i].server_name, identifier)
                \/ fnmatch(acts[i].prefix, identifier)
                \/ matches_target(acts[i], identifier)},
                Len(acts))
         IN IF results = <<>> THEN Unknown(identifier)
            ELSE [error |-> "none", results |-> results]

\* glob_target(conf, identifier), acts being conf.get_actions(): the actions
\* matched, in the order of acts, or the error raised
glob_target(acts, identifier) ==
    IF Contains(identifier, ":")
    THEN LET parts == split(identifier, ":", 2)
         IN IF Len(parts) # 2
            THEN [error |-> "ValueError", text |-> "too many values to unpack",
                  identifier |-> <<>>]
            ELSE LET results == in_order({i \in 1..Len(acts) :
                        /\ \/ fnmatch(acts[i].server_name, parts[1])
                           \/ fnmatch(acts[i].prefix, parts[1])
                        /\ matches_target(acts[i], parts[2])},
                        Len(acts))
                 IN IF results = <<>> THEN Unknown(identifier)
                    ELSE [error |-> "none", results |-> results]
    ELSE LET results == in_order({i \in 1..Len(acts) :
                \/ fnmatch(acts[i].server_name, identifier)
                \/ fnmatch(acts[i].prefix, identifier)
                \/ matches_target(acts[i], identifier)},
                Len(acts))
         IN IF results = <<>> THEN Unknown(identifier)
            ELSE [error |-> "none", results |-> results]

\* the loop of glob_targets from the i-th identifier on: the concatenation
\* of what glob_target returns, or the first error raised
RECURSIVE extend_from(_, _, _, _)
extend_from(acts, identifier_list, i, results) ==
    IF i > Len(identifier_list) THEN [error |-> "none", results |-> results]
    ELSE LET r == glob_target(acts, identifier_list[i])
         IN IF r.error # "none" THEN r
            ELSE extend_from(acts, identifier_list, i + 1, results \o r.results)

\* the lists list(set(results)) may return: the order of a set is not defined
orderings(results) ==
    LET elems == {results[k] : k \in 1..Len(results)}
    IN {seq \in [1..Cardinality(elems) -> elems] :
            \A a, b \in 1..Cardinality(elems) : a # b => seq[a] # seq[b]}

\* glob_targets without list(set(results))
glob_targets_concatenated(acts, identifier_list, all_on_empty) ==
    IF identifier_list = <<>> /\ all_on_empty
    THEN {[error |-> "none", results |-> [i \in 1..Len(acts) |-> i]]}
    ELSE {extend_from(acts, identifier_list, 1, <<>>)}

\* glob_targets(conf, identifier_list, all_on_empty): the set of the values
\* it may return or errors it may raise
glob_targets(acts, identifier_list, all_on_empty) ==
    IF identifier_list = <<>> /\ all_on_empty
    THEN {[error |-> "none", results |-> [i \in 1..Len(acts) |-> i]]}
    ELSE LET r == extend_from(acts, identifier_list, 1, <<>>)
         IN IF r.error # "none" THEN {r}
            ELSE {[error |-> "none", results |-> seq] : seq \in orderings(r.results)}

(***************************************************************************)
(* SpecSelect: identifiers are drawn and resolved against three actions.   *)
(***************************************************************************)
Web1 == <<"w", "e", "b", "1">>
Api1 == <<"a", "p", "i", "1">>
Www == <<"w", "w", "w">>
Shop == <<"s", "h", "o", "p">>
Srv == <<"/", "s", "r", "v">>

\* the database db of web1 (mysql), the database db of api1 (postgres) and
\* the folder /srv of web1, under the prefix w
SelectActions ==
    << [server_name |-> Web1, prefix |-> Web1, name |-> Db, kind |-> "mysql",
        database |-> Shop],
       [server_name |-> Api1, prefix |-> Api1, name |-> Db, kind |-> "postgres",
        database |-> Shop],
       [server_name |-> Web1, prefix |-> W, name |-> Www, kind |-> "file",
        remote_folder |-> Srv] >>

Identifiers ==
    {
      <<"w", "e", "b", "*">>,                                                  \* web*,
      <<"d", "b">>,                                                            \* db,
      <<"z", "z">>,                                                            \* zz,
      <<"/", "s", "r", "v">>,                                                  \* /srv,
      <<"w", "e", "b", "*", ":", "d", "b">>,                                   \* web*:db,
      <<"a", "p", "i", "1", ":", "d", "?">>,                                   \* api1:d?,
      <<"w", ":", "*">>,                                                       \* w:*,
      <<"w", "e", "b", "*", ":", "z", "z">>,                                   \* web*:zz,
      <<"z", "z", ":", "d", "b">>,                                             \* zz:db,
      <<"*", ":", "m", "y", "s", "q", "l">>,                                   \* *:mysql,
      <<"*", ":", "s", "h", "o", "p">>,                                        \* *:shop,
      <<"w", "e", "b", "*", ":", "d", "b", ":", "z", "z">> }                   \* web*:db:zz

IdentifierLists == SeqsUpTo(Identifiers, MaxIdentifiers)

InitSelect ==
    /\ now = Date(BaseYear, 1, 2)
    /\ IdleRetention
    /\ IdleArchive
    /\ IdleRun
    /\ IdleProbe
    /\ storages = <<>>
    /\ actions = SelectActions
    /\ files = <<>>
    /\ removed = {}
    /\ \E l \in IdentifierLists, b \in BOOLEAN :
          args = [identifier_list |-> l, all_on_empty |-> b]
    /\ returned = [fn |-> "none"]

\* glob_target(conf, identifier), of the first identifier drawn
GlobTarget ==
    /\ returned.fn = "none"
    /\ args.identifier_list # <<>>
    /\ returned' = [fn |-> "glob_target",
                    value |-> glob_target(actions, args.identifier_list[1])]
    /\ UNCHANGED <<probeVars, now, retentionVars, runVars, storeVars,
                   archiveVars, args>>

\* glob_targets(conf, identifier_list, all_on_empty)
GlobTargets ==
    /\ returned.fn = "none"
    /\ \E r \in glob_targets(actions, args.identifier_list, args.all_on_empty) :
          returned' = [fn |-> "glob_targets", value |-> r]
    /\ UNCHANGED <<probeVars, now, retentionVars, runVars, storeVars,
                   archiveVars, args>>

NextSelect == GlobTarget \/ GlobTargets

SpecSelect == InitSelect /\ [][NextSelect]_vars

(***************************************************************************)
(* The documents of the configuration: None, a number, a text, a list of   *)
(* documents or a mapping from keys to documents.                          *)
(***************************************************************************)
None == [type |-> "none"]

Scalar(n) == [type |-> "scalar", scalar |-> n]

Str(text) == [type |-> "string", text |-> text]

Arr(items) == [type |-> "array", items |-> items]

Dict(entries) == [type |-> "dict", entries |-> entries]

is_array(var) == var.type = "array"

is_dict(var) == var.type = "dict"

\* deep_merge, were the value of the new mapping to replace the value the
\* old mapping has for the same key
RECURSIVE deep_merge_overriding(_, _)
deep_merge_overriding(src, new) ==
    IF new = None THEN src
    ELSE IF src = None THEN new
    ELSE IF is_array(src)
    THEN IF is_array(new) THEN Arr(src.items \o new.items)
         ELSE Arr(Append(src.items, new))
    ELSE IF is_dict(src)
    THEN IF is_array(new) THEN Arr(Append(new.items, src))
         ELSE IF ~is_dict(new) THEN Arr(<<src, new>>)
         ELSE Dict([key \in DOMAIN src.entries \cup DOMAIN new.entries |->
                    IF key \in DOMAIN new.entries THEN new.entries[key]
                    ELSE src.entries[key]])
    ELSE Arr(<<src, new>>)

\* deep_merge, were a value that is neither a list nor a mapping replaced by
\* the new value
RECURSIVE deep_merge_dropping(_, _)
deep_merge_dropping(src, new) ==
    IF new = None THEN src
    ELSE IF src = None THEN new
    ELSE IF is_array(src)
    THEN IF is_array(new) THEN Arr(src.items \o new.items)
         ELSE Arr(Append(src.items, new))
    ELSE IF is_dict(src)
    THEN IF is_array(new) THEN Arr(Append(new.items, src))
         ELSE IF ~is_dict(new) THEN Arr(<<src, new>>)
         ELSE Dict([key \in DOMAIN src.entries \cup DOMAIN new.entries |->
                    IF key \in DOMAIN src.entries /\ key \in DOMAIN new.entries
                    THEN deep_merge_dropping(src.entries[key], new.entries[key])
                    ELSE IF key \in DOMAIN new.entries THEN new.entries[key]
                    ELSE src.entries[key]])
    ELSE new

\* deep_merge(src, new): the lists and mappings it builds are copies, src
\* and new are left as they were
RECURSIVE deep_merge(_, _)
deep_merge(src, new) ==
    IF new = None THEN src
    ELSE IF src = None THEN new
    ELSE IF is_array(src)
    THEN IF is_array(new) THEN Arr(src.items \o new.items)
         ELSE Arr(Append(src.items, new))
    ELSE IF is_dict(src)
    THEN IF is_array(new) THEN Arr(Append(new.items, src))
         ELSE IF ~is_dict(new) THEN Arr(<<src, new>>)
         ELSE Dict([key \in DOMAIN src.entries \cup DOMAIN new.entries |->
                    IF key \in DOMAIN src.entries /\ key \in DOMAIN new.entries
                    THEN deep_merge(src.entries[key], new.entries[key])
                    ELSE IF key \in DOMAIN new.entries THEN new.entries[key]
                    ELSE src.entries[key]])
    ELSE Arr(<<src, new>>)

(***************************************************************************)
(* SpecMerge: two documents are drawn and merged.                          *)
(***************************************************************************)
MergeScalars == {Scalar(1), Scalar(2), Scalar(3)}

\* None, the numbers, the lists of numbers and the mappings of x and y to
\* numbers
FlatValues ==
    {None} \cup MergeScalars
    \cup {Arr(s) : s \in SeqsUpTo(MergeScalars, MaxItems)}
    \cup {Dict(f) : f \in UNION {[K -> MergeScalars] : K \in SUBSET {"x", "y"}}}

\* ... and the mappings of a to one of them
MergeValues ==
    FlatValues \cup {Dict([key \in {"a"} |-> v]) : v \in FlatValues}

InitMerge ==
    /\ now = Date(BaseYear, 1, 2)
    /\ IdleRetention
    /\ IdleStore
    /\ IdleArchive
    /\ IdleRun
    /\ IdleProbe
    /\ \E src \in MergeValues, new \in MergeValues :
          args = [src |-> src, new |-> new]
    /\ returned = [fn |-> "none"]

DeepMerge ==
    /\ returned.fn = "none"
    /\ returned' = [fn |-> "deep_merge", value |-> deep_merge(args.src, args.new)]
    /\ UNCHANGED <<probeVars, now, retentionVars, runVars, storeVars,
                   archiveVars, args>>

NextMerge == DeepMerge

SpecMerge == InitMerge /\ [][NextMerge]_vars

(***************************************************************************)
(* BackupConfig._parse_includes and BackupConfig._include. A directory is  *)
(* the list of its files, each a [name, doc], in the order the system      *)
(* lists them; every included file lies in the directory of the including  *)
(* file. dict.keys() is never equal to a list, as on Python 3.             *)
(***************************************************************************)
Include == <<"i", "n", "c", "l", "u", "d", "e">>

\* re.match(r"^include *(.*)$", data), for a text of one line
match_include(text) == startswith(text, Include)

\* glob.glob(file_pattern), for a pattern that names no directory and files
\* whose name does not start with a dot
glob(dir, file_pattern) ==
    SelectSeq(dir, LAMBDA f : fnmatch(f.name, file_pattern))

RECURSIVE parse_includes(_, _)
RECURSIVE include_from(_, _, _, _)
RECURSIVE parse_elements_from(_, _, _, _)

\* the loop of _include over the files found, from the i-th one on
include_from(found, i, dir, results) ==
    IF i > Len(found) THEN results
    ELSE include_from(found, i + 1, dir,
            deep_merge(results, parse_includes(found[i].doc, dir)))

\* BackupConfig._include(file_pattern, path, loader)
include(file_pattern, dir) ==
    include_from(glob(dir, file_pattern), 1, dir, None)

\* the loop of _parse_includes over the elements of a list
parse_elements_from(items, i, dir, merged) ==
    IF i > Len(items) THEN merged
    ELSE parse_elements_from(items, i + 1, dir,
            deep_merge(merged, parse_includes(items[i], dir)))

\* BackupConfig._parse_includes(data, config_file, loader)
parse_includes(data, dir) ==
    IF is_array(data) THEN parse_elements_from(data.items, 1, dir, Arr(<<>>))
    ELSE IF is_dict(data)
    THEN LET parsed == Dict([key \in DOMAIN data.entries \ {"include"} |->
                                parse_includes(data.entries[key], dir)])
         IN IF "include" \in DOMAIN data.entries
            THEN deep_merge(parsed, include(data.entries["include"].text, dir))
            ELSE parsed
    ELSE IF data.type = "string"
    THEN IF match_include(data.text) THEN include(data.text, dir) ELSE data
    ELSE data

(***************************************************************************)
(* SpecInclude: a document and a directory are drawn; the includes of the  *)
(* document are expanded.                                                  *)
(***************************************************************************)
StarY == <<"*", ".", "y">>
FileA == <<"a", ".", "y">>
FileB == <<"b", ".", "y">>

\* a.y, b.y and "include a.y"
FileNames == <<FileA, FileB, Include \o <<" ">> \o FileA>>

\* what a file may hold: {x: 1}, {y: 2}, [1] or 3
FileDocs ==
    { Dict([key \in {"x"} |-> Scalar(1)]), Dict([key \in {"y"} |-> Scalar(2)]),
      Arr(<<Scalar(1)>>), Scalar(3) }

\* the directories: each name is absent or holds a document, and the files
\* are listed in the order of FileNames or in the reverse order
Directories ==
    LET Listing(present, docs, order) ==
            [k \in 1..Len(order) |-> [name |-> FileNames[order[k]],
                                      doc |-> docs[order[k]]]]
        Orders(present) ==
            {in_order(present, Len(FileNames)),
             [k \in 1..Cardinality(present) |->
                in_order(present, Len(FileNames))[Cardinality(present) + 1 - k]]}
    IN UNION {{Listing(present, docs, order) :
                    docs \in [present -> FileDocs], order \in Orders(present)} :
                present \in SUBSET (1..Len(FileNames))}

IncludeData ==
    LET patterns == {StarY, FileA}
        texts == {Include \o <<" ">> \o p : p \in patterns}
        mappings == {Dict([key \in {"include"} |-> Str(p)]) : p \in patterns}
    IN {Str(t) : t \in texts} \cup mappings
       \cup {Dict([key \in {"include", "x"} |->
                    IF key = "x" THEN Scalar(3) ELSE Str(StarY)])}
       \cup {Arr(<<Str(t)>>) : t \in texts}
       \cup {Dict([key \in {"a"} |-> m]) : m \in mappings}
       \cup {Scalar(3), Str(FileA), Arr(<<Scalar(1), Scalar(2)>>)}

InitInclude ==
    /\ now = Date(BaseYear, 1, 2)
    /\ IdleRetention
    /\ IdleStore
    /\ IdleArchive
    /\ IdleRun
    /\ IdleProbe
    /\ \E data \in IncludeData, dir \in Directories :
          args = [data |-> data, dir |-> dir]
    /\ returned = [fn |-> "none"]

ParseIncludes ==
    /\ returned.fn = "none"
    /\ returned' = [fn |-> "parse_includes",
                    value |-> parse_includes(args.data, args.dir)]
    /\ UNCHANGED <<probeVars, now, retentionVars, runVars, storeVars,
                   archiveVars, args>>

NextInclude == ParseIncludes

SpecInclude == InitInclude /\ [][NextInclude]_vars

(***************************************************************************)
(* The `files` and `databases` sub-sections of a server block              *)
(* (BackupConfig._load_conf, third parsing).                               *)
(***************************************************************************)
AlphaNum ==
    { "a", "b", "c", "d", "e", "f", "g", "h", "i", "j", "k", "l", "m", "n",
      "o", "p", "q", "r", "s", "t", "u", "v", "w", "x", "y", "z", "A", "B",
      "C", "D", "E", "F", "G", "H", "I", "J", "K", "L", "M", "N", "O", "P",
      "Q", "R", "S", "T", "U", "V", "W", "X", "Y", "Z", "0", "1", "2", "3",
      "4", "5", "6", "7", "8", "9" }

\* re.sub(r"[^a-zA-Z0-9]+", "_", text), then re.sub(r"_+", "_", ...): every
\* run of other characters becomes one underscore
RECURSIVE sub_runs(_)
sub_runs(text) ==
    IF text = <<>> THEN <<>>
    ELSE IF text[1] \in AlphaNum THEN <<text[1]>> \o sub_runs(Tail(text))
    ELSE IF Len(text) > 1 /\ text[2] \notin AlphaNum THEN sub_runs(Tail(text))
    ELSE <<"_">> \o sub_runs(Tail(text))

Exclude == <<"e", "x", "c", "l", "u", "d", "e">>
FileExclude == <<"f", "i", "l", "e", "_", "e", "x", "c", "l", "u", "d", "e">>

\* BackupConfig._filename_to_prefix(file_path): re.sub raises TypeError
\* when file_path is not a text
filename_to_prefix(file_path) ==
    IF file_path.type # "string" THEN [error |-> "TypeError", text |-> <<>>]
    ELSE LET slug == strip(sub_runs(file_path.text), "_")
         IN [error |-> "none",
             text |-> IF slug = Exclude THEN FileExclude ELSE slug]

\* BackupConfig._db_to_prefix(db_info): a list has no split
db_to_prefix(db_info) ==
    IF db_info.type # "string" THEN [error |-> "AttributeError", text |-> <<>>]
    ELSE [error |-> "none",
          text |-> strip(sub_runs(split(db_info.text, ":", 2)[1]), "_")]

\* _parse_file_action_conf: the error it raises for a folder, "none" when
\* it builds the FileAction
file_action_error(file_info) ==
    IF file_info.type # "string" \/ ~startswith(file_info.text, <<"/">>)
    THEN "ConfigError" ELSE "none"

\* _parse_db_action_conf: the error it raises for a database descriptor
db_action_error(db_info) ==
    IF db_info.type # "string" THEN "ConfigError"
    ELSE LET db_info_parts == split(db_info.text, ":", Len(db_info.text))
         IN IF \/ Len(db_info_parts) # 3
               \/ db_info_parts[1] \notin {db_type([kind |-> k]) :
                                              k \in {"mysql", "postgres", "mongo"}}
               \/ ~match_digits(db_info_parts[2])
               \/ int(db_info_parts[2]) > 65534
               \/ db_info_parts[3] = <<>>
            THEN "ConfigError" ELSE "none"

\* the `files` sub-section of a server block: the error raised, or the
\* [name, source] of the FileActions built
resolve_files(info) ==
    LET listed_ == IF info.type = "string" THEN Arr(<<info>>) ELSE info
    IN IF is_array(listed_)
       THEN IF listed_.items = <<>> THEN [error |-> "none", actions |-> {}]
            ELSE [error |-> filename_to_prefix(listed_).error, actions |-> {}]
       ELSE IF ~is_dict(listed_) THEN [error |-> "ConfigError", actions |-> {}]
       ELSE LET names == DOMAIN listed_.entries \ {"exclude"}
            IN IF \E n \in names : file_action_error(listed_.entries[n]) # "none"
               THEN [error |-> "ConfigError", actions |-> {}]
               ELSE [error |-> "none",
                     actions |-> {[name |-> n, source |-> listed_.entries[n]] :
                                    n \in names}]

\* the `databases` sub-section of a server block; the test that guards it
\* reads files_info, which is a dict by then, so that anything else than a
\* dict reaches databases_info.items()
resolve_databases(info) ==
    LET listed_ == IF info.type = "string" THEN Arr(<<info>>) ELSE info
    IN IF is_array(listed_)
       THEN IF listed_.items = <<>> THEN [error |-> "none", actions |-> {}]
            ELSE [error |-> db_to_prefix(listed_).error, actions |-> {}]
       ELSE IF ~is_dict(listed_)
       THEN [error |-> "AttributeError", actions |-> {}]
       ELSE IF \E n \in DOMAIN listed_.entries :
                    db_action_error(listed_.entries[n]) # "none"
       THEN [error |-> "ConfigError", actions |-> {}]
       ELSE [error |-> "none",
             actions |-> {[name |-> n, source |-> listed_.entries[n]] :
                            n \in DOMAIN listed_.entries}]

(***************************************************************************)
(* SpecSection: a `files` or a `databases` sub-section is drawn and        *)
(* resolved.                                                               *)
(***************************************************************************)
\* /srv/app, /var/www-data, etc (a relative path)
SectionPaths ==
    { Str(<<"/", "s", "r", "v", "/", "a", "p", "p">>),
      Str(<<"/", "v", "a", "r", "/", "w", "w", "w", "-", "d", "a", "t", "a">>),
      Str(<<"e", "t", "c">>) }

\* mysql:3306:shop, postgres:5432:crm, oracle:1:x (an unknown engine)
SectionDatabases ==
    { Str(<<"m", "y", "s", "q", "l", ":", "3", "3", "0", "6", ":", "s", "h", "o", "p">>),
      Str(<<"p", "o", "s", "t", "g", "r", "e", "s", ":", "5", "4", "3", "2", ":", "c", "r", "m">>),
      Str(<<"o", "r", "a", "c", "l", "e", ":", "1", ":", "x">>) }

\* a sub-section over some entries: one entry alone, a list of entries, or
\* a mapping from names to entries
SectionsOver(entries) ==
    entries
    \cup {Arr(s) : s \in SeqsUpTo(entries, MaxItems)}
    \cup {Dict(f) : f \in UNION {[K -> entries] : K \in SUBSET {"app", "www"}}}
    \cup {Scalar(1)}

InitSection ==
    /\ now = Date(BaseYear, 1, 2)
    /\ IdleRetention
    /\ IdleStore
    /\ IdleArchive
    /\ IdleRun
    /\ IdleProbe
    /\ \/ \E info \in SectionsOver(SectionPaths) :
             args = [section |-> "files", info |-> info]
       \/ \E info \in SectionsOver(SectionDatabases) :
             args = [section |-> "databases", info |-> info]
    /\ returned = [fn |-> "none"]

ResolveFiles ==
    /\ returned.fn = "none"
    /\ args.section = "files"
    /\ returned' = [fn |-> "resolve_files", value |-> resolve_files(args.info)]
    /\ UNCHANGED <<probeVars, now, retentionVars, runVars, storeVars,
                   archiveVars, args>>

ResolveDatabases ==
    /\ returned.fn = "none"
    /\ args.section = "databases"
    /\ returned' = [fn |-> "resolve_databases",
                    value |-> resolve_databases(args.info)]
    /\ UNCHANGED <<probeVars, now, retentionVars, runVars, storeVars,
                   archiveVars, args>>

NextSection == ResolveFiles \/ ResolveDatabases

SpecSection == InitSection /\ [][NextSection]_vars

(***************************************************************************)
(* do_report and test_reports. What report_target.report raises is "none", *)
(* "StandardError" (an exception that derives from StandardError on        *)
(* Python 2: RuntimeError, IOError, ...) or "Exception" (one that derives  *)
(* from Exception only on Python 2: smtplib.SMTPException,                 *)
(* jinja2.TemplateError, ...). The script runs on Python 2 and on          *)
(* Python 3.                                                               *)
(***************************************************************************)
\* ReportTarget.report: nothing is sent, and nothing raised, for an empty
\* report
report_target_report(report_target, empty) ==
    IF empty THEN "none" ELSE report_target

\* the loop `for report_target in conf.report_list` of do_report and of
\* test_reports, from the k-th target on: the targets report was called
\* on, and the exception that left the loop
RECURSIVE report_from(_, _, _, _)
report_from(python, report_list_, empty, k) ==
    IF k > Len(report_list_) THEN [attempted |-> <<>>, raised |-> "none"]
    ELSE LET raised == report_target_report(report_list_[k], empty)
         IN IF raised = "none" \/ isinstance(raised, StandardError(python))
            THEN LET rest == report_from(python, report_list_, empty, k + 1)
                 IN [attempted |-> <<k>> \o rest.attempted,
                     raised |-> rest.raised]
            ELSE [attempted |-> <<k>>, raised |-> raised]

do_report(python, report_list_, empty) ==
    report_from(python, report_list_, empty, 1)

\* the Report of test_reports holds one warning
test_reports(python, report_list_) ==
    report_from(python, report_list_, FALSE, 1)

\* main for the commands `test` and `run`, once the configuration is
\* loaded: `test` has an `except StandardError` that returns 1, `run` has
\* none; what neither catches ends the script on a traceback
main_reports(python, command, report_list_, empty) ==
    LET done == IF command = "test" THEN test_reports(python, report_list_)
                ELSE do_report(python, report_list_, empty)
    IN [attempted |-> done.attempted,
        exit |-> IF done.raised = "none" THEN "0"
                 ELSE IF command = "test"
                         /\ isinstance(done.raised, StandardError(python))
                 THEN "1" ELSE "traceback"]

(***************************************************************************)
(* SpecReport: an interpreter, a command, a list of report targets with    *)
(* what each of them raises, and a report that is empty or not are drawn;  *)
(* main sends the report.                                                  *)
(***************************************************************************)
Pythons == {2, 3}

Raises == {"none", "StandardError", "Exception"}

InitReport ==
    /\ now = Date(BaseYear, 1, 2)
    /\ IdleRetention
    /\ IdleStore
    /\ IdleArchive
    /\ IdleRun
    /\ IdleProbe
    /\ \E python \in Pythons, targets \in SeqsUpTo(Raises, MaxTargets) :
          \/ args = [python |-> python, command |-> "test",
                     report_list |-> targets, empty |-> FALSE]
          \/ \E empty \in BOOLEAN :
                args = [python |-> python, command |-> "run",
                        report_list |-> targets, empty |-> empty]
    /\ returned = [fn |-> "none"]

TestReports ==
    /\ returned.fn = "none"
    /\ args.command = "test"
    /\ returned' = [fn |-> "test_reports",
                    value |-> main_reports(args.python, "test",
                                           args.report_list, args.empty)]
    /\ UNCHANGED <<probeVars, now, retentionVars, runVars, storeVars,
                   archiveVars, args>>

SendReports ==
    /\ returned.fn = "none"
    /\ args.command = "run"
    /\ returned' = [fn |-> "do_report",
                    value |-> main_reports(args.python, "run",
                                           args.report_list, args.empty)]
    /\ UNCHANGED <<probeVars, now, retentionVars, runVars, storeVars,
                   archiveVars, args>>

NextReport == TestReports \/ SendReports

SpecReport == InitReport /\ [][NextReport]_vars

(***************************************************************************)
(* The third parsing of BackupConfig._load_conf: each block of a server is *)
(* laid over the common information. A section is a function from keys to  *)
(* values.                                                                 *)
(***************************************************************************)
update_keeping(server_info, info) ==
    [k \in DOMAIN server_info \cup DOMAIN info |->
        IF k \in DOMAIN server_info THEN server_info[k] ELSE info[k]]

\* dict.update: server_info.update(info)
update(server_info, info) ==
    [k \in DOMAIN server_info \cup DOMAIN info |->
        IF k \in DOMAIN info THEN info[k] ELSE server_info[k]]

\* params[key], "None" when the section has no such key
param(params, key) == IF key \in DOMAIN params THEN params[key] ELSE "None"

\* what the actions and the local storage of a block are built with:
\* ssh_user and dest_folder by _parse_action_common, the folder by
\* _parse_local_storage_list
build_block(server_info) ==
    [ssh_user |-> param(server_info, "ssh_user"),
     dest_folder |-> param(server_info, "dest_folder"),
     local_history_folder |-> param(server_info, "local_history_folder")]

\* the loop over the blocks of a server, from the k-th one on: server_info
\* is a deep copy of common_info, so that update leaves common_info as it
\* was for the next block
RECURSIVE third_parsing_from(_, _, _)
third_parsing_from(common_info, info_list, k) ==
    IF k > Len(info_list) THEN <<>>
    ELSE LET server_info == update(common_info, info_list[k])
         IN <<build_block(server_info)>>
            \o third_parsing_from(common_info, info_list, k + 1)

third_parsing(common_info, info_list) ==
    third_parsing_from(common_info, info_list, 1)

(***************************************************************************)
(* SpecOverlay: a common section and the blocks of a server are drawn, and *)
(* the blocks are resolved.                                                *)
(***************************************************************************)
MaxBlocks == 2        \* blocks of the server

OverlayKeys == {"ssh_user", "dest_folder", "local_history_folder"}

\* the values a key is given: two users, two folders
OverlayValues(key) ==
    IF key = "ssh_user" THEN {"root", "bak"} ELSE {"/a", "/b"}

Sections ==
    UNION {{f \in [K -> {"root", "bak", "/a", "/b"}] :
                \A k \in K : f[k] \in OverlayValues(k)} :
           K \in SUBSET OverlayKeys}

InitOverlay ==
    /\ now = Date(BaseYear, 1, 2)
    /\ IdleRetention
    /\ IdleStore
    /\ IdleArchive
    /\ IdleRun
    /\ IdleProbe
    /\ \E common_info \in Sections :
       \E n \in 1..MaxBlocks :
       \E info_list \in [1..n -> Sections] :
          args = [common_info |-> common_info, info_list |-> info_list]
    /\ returned = [fn |-> "none"]

ThirdParsing ==
    /\ returned.fn = "none"
    /\ returned' = [fn |-> "third_parsing",
                    value |-> third_parsing(args.common_info, args.info_list)]
    /\ UNCHANGED <<probeVars, now, retentionVars, runVars, storeVars,
                   archiveVars, args>>

NextOverlay == ThirdParsing

SpecOverlay == InitOverlay /\ [][NextOverlay]_vars

(***************************************************************************)
(* SpecAggregate: add_issue, add_warning and add_success are called on a   *)
(* Report in any order; args holds the calls made so far.                  *)
(***************************************************************************)
MaxCalls == 3         \* calls on the Report

AggregateServers == {W, X}

AggregateDetails == {"failed", "done"}

InitAggregate ==
    /\ now = Date(BaseYear, 1, 2)
    /\ IdleRetention
    /\ IdleStore
    /\ IdleArchive
    /\ IdleRun
    /\ IdleProbe
    /\ args = <<>>
    /\ returned = [fn |-> "none"]

\* the call fn(server, details) was made and left the Report r
Called(fn, server, details, r) ==
    /\ Len(args) < MaxCalls
    /\ report' = r
    /\ args' = Append(args, [fn |-> fn, server |-> server, details |-> details])
    /\ UNCHANGED <<probeVars, now, retentionVars, storeVars, archiveVars,
                   returned, config, pc, uncaught, report_list, next_action,
                   outcomes, save_calls, next_target, delivered, quit_msg,
                   exit_code>>

AddIssue ==
    \E server \in AggregateServers, details \in AggregateDetails :
        Called("add_issue", server, details, add_issue(report, server, details))

AddWarning ==
    \E server \in AggregateServers, details \in AggregateDetails :
        Called("add_warning", server, details,
               add_warning(report, server, details))

AddSuccess ==
    \E server \in AggregateServers, details \in AggregateDetails :
        Called("add_success", server, details,
               add_success(report, server, details))

NextAggregate == AddIssue \/ AddWarning \/ AddSuccess

SpecAggregate == InitAggregate /\ [][NextAggregate]_vars

(***************************************************************************)
(* TimeReference. The class attribute _now is datetime.datetime.utcnow()   *)
(* as evaluated when the class statement runs, at the start of the         *)
(* process; `now` holds its date, and args.utcnow the date of the wall     *)
(* clock.                                                                  *)
(***************************************************************************)
TimeReference_get_utcnow(_now, utcnow) == utcnow

\* TimeReference.get()
TimeReference_get(_now, utcnow) == _now

(***************************************************************************)
(* SpecClock: one process saves, and asks should_save and should_keep,     *)
(* while the wall clock passes midnight.                                   *)
(***************************************************************************)
\* a Monday, and the last day of a month
ClockStarts == {Date(BaseYear, 1, 2), Date(BaseYear, 1, 31)}

InitClock ==
    /\ now \in ClockStarts
    /\ args = [utcnow |-> now]
    /\ IdleRetention
    /\ IdleRun
    /\ IdleProbe
    /\ \E f \in RunPolicies :
          storages = << [kind |-> "local", key |-> Folder, freq |-> f],
                        [kind |-> "glacier", key |-> Vault, freq |-> f] >>
    /\ actions = SharedActions
    /\ files = <<{}, {}>>
    /\ removed = {}
    /\ IdleArchive
    /\ returned = [fn |-> "none"]

\* the wall clock passes midnight
Midnight ==
    /\ toordinal(args.utcnow) - toordinal(now) < MaxDays
    /\ args' = [utcnow |-> fromordinal(toordinal(args.utcnow) + 1)]
    /\ UNCHANGED <<probeVars, now, retentionVars, runVars, storeVars,
                   archiveVars, returned>>

\* action.run_backup(), no command failing
ClockRunBackup ==
    /\ steps < MaxSharedOps
    /\ \E i \in 1..Len(actions) :
          LET today == TimeReference_get(now, args.utcnow)
              r == run_backup(actions[i], storages, today, files, NoRunFailure)
          IN /\ files' = r.files
             /\ returned' = [fn |-> "run_backup", action |-> i,
                             utcnow |-> args.utcnow]
    /\ steps' = steps + 1
    /\ UNCHANGED <<probeVars, now, retentionVars, runVars, storages, actions,
                   removed, listed, args>>

\* storage.should_save()
ClockShouldSave ==
    /\ steps < MaxSharedOps
    /\ \E s \in 1..Len(storages) :
          returned' = [fn |-> "should_save", storage |-> s,
                       utcnow |-> args.utcnow,
                       value |-> should_save(storages[s].freq,
                                    TimeReference_get(now, args.utcnow))]
    /\ steps' = steps + 1
    /\ UNCHANGED <<probeVars, now, retentionVars, runVars, storeVars, listed,
                   args>>

\* storage.should_keep(archive) of an archive the storage holds
ClockShouldKeep ==
    /\ steps < MaxSharedOps
    /\ \E s \in 1..Len(storages) : \E archive \in files[s] :
          returned' = [fn |-> "should_keep", storage |-> s,
                       archive |-> archive, utcnow |-> args.utcnow,
                       value |-> storage_should_keep(storages[s],
                                    TimeReference_get(now, args.utcnow),
                                    archive)]
    /\ steps' = steps + 1
    /\ UNCHANGED <<probeVars, now, retentionVars, runVars, storeVars, listed,
                   args>>

NextClock == Midnight \/ ClockRunBackup \/ ClockShouldSave \/ ClockShouldKeep

SpecClock == InitClock /\ [][NextClock]_vars

(***************************************************************************)
(* Claims on the retention policy (SpecRetention).                         *)
(***************************************************************************)
OnlyDay(f) == BackupFrequency(f.day, NO_VALUE, NO_VALUE, NO_VALUE)
OnlyWeek(f) == BackupFrequency(NO_VALUE, f.week, NO_VALUE, NO_VALUE)
OnlyMonth(f) == BackupFrequency(NO_VALUE, NO_VALUE, f.month, NO_VALUE)
OnlyYear(f) == BackupFrequency(NO_VALUE, NO_VALUE, NO_VALUE, f.year)

AllTiersNone(f) ==
    f.day = NO_VALUE /\ f.week = NO_VALUE /\ f.month = NO_VALUE /\ f.year = NO_VALUE

\* C3 as stated: should_save() is true iff at least one of the four tiers is
\* non-NONE, whatever the weekday or day of month of the reference date.
C3_ShouldSaveIffSomeTier ==
    op = "should_save" => (result <=> ~AllTiersNone(freq))

\* C3 as amended: should_save() is true iff the day tier is non-NONE, or the
\* week tier is non-NONE and today is a Monday, or the month tier is non-NONE
\* and today is the first of a month, or the year tier is non-NONE and today
\* is the first of January.
C3_ShouldSaveIffTierOfToday ==
    op = "should_save" =>
        (result <=>
            \/ freq.day # NO_VALUE
            \/ freq.week # NO_VALUE /\ isoweekday(now) = 1
            \/ freq.month # NO_VALUE /\ now.day = 1
            \/ freq.year # NO_VALUE /\ now.day = 1 /\ now.month = 1)

\* should_save() answered no on a day that is no Monday, for a weekly policy
C3_Witness ==
    /\ op = "should_save"
    /\ freq.week # NO_VALUE
    /\ freq.day = NO_VALUE /\ freq.month = NO_VALUE /\ freq.year = NO_VALUE
    /\ isoweekday(now) # 1
    /\ result = FALSE

\* C8: should_keep is the disjunction of the four tiers, each evaluated as if
\* it were the only tier set; with every tier NONE the answer is false for
\* every date, today included (and so is should_save's).
C8_KeepIsDisjunctionOfTiers ==
    /\ op = "should_keep" =>
          /\ result <=>
                \/ should_keep(OnlyDay(freq), now, archive_date)
                \/ should_keep(OnlyWeek(freq), now, archive_date)
                \/ should_keep(OnlyMonth(freq), now, archive_date)
                \/ should_keep(OnlyYear(freq), now, archive_date)
          /\ AllTiersNone(freq) => result = FALSE
    /\ op = "should_save" /\ AllTiersNone(freq) => result = FALSE

\* a Monday kept by the week tier alone, under a policy whose day tier is set
\* and does not reach it
C8_Witness ==
    /\ op = "should_keep"
    /\ freq.day >= 1 /\ freq.week >= 1
    /\ ~should_keep(OnlyDay(freq), now, archive_date)
    /\ should_keep(OnlyWeek(freq), now, archive_date)
    /\ ~should_keep(OnlyMonth(freq), now, archive_date)
    /\ result = TRUE

\* C9: with day tier N >= 1 and the other tiers NONE, the snapshot of
\* today - k days is kept for every k in 0..N-1 and not kept for k = N.
C9_DayTierBoundary ==
    (op = "should_keep" /\ freq.day >= 1 /\ freq = OnlyDay(freq)) =>
        LET k == toordinal(now) - toordinal(archive_date)
        IN /\ k \in 0..(freq.day - 1) => result = TRUE
           /\ k = freq.day => result = FALSE

\* the snapshot of today - N days, N = 2, is not kept, although it is dated
\* the first of a month
C9_Witness ==
    /\ op = "should_keep"
    /\ freq = BackupFrequency(2, NO_VALUE, NO_VALUE, NO_VALUE)
    /\ toordinal(now) - toordinal(archive_date) = 2
    /\ archive_date.day = 1
    /\ result = FALSE

\* the Monday of the week of a date, as a day number
MondayOfWeek(date) ==
    CHOOSE o \in (toordinal(date) - 6)..toordinal(date) :
        isoweekday(fromordinal(o)) = 1

\* C20: with week tier N >= 1 and the other tiers NONE, a snapshot is kept
\* iff its date is a Monday on or after the Monday that begins the N-th most
\* recent week, the week of the reference date being the first, whatever
\* the weekday of the reference date.
C20_WeekTierBoundary ==
    (op = "should_keep" /\ freq.week >= 1 /\ freq = OnlyWeek(freq)) =>
        (result <=>
            /\ isoweekday(archive_date) = 1
            /\ toordinal(archive_date) >=
                  MondayOfWeek(now) - 7 * (freq.week - 1))

\* on a day that is no Monday, with N = 2, the Monday of the week before is
\* kept
C20_Witness ==
    /\ op = "should_keep"
    /\ freq = BackupFrequency(NO_VALUE, 2, NO_VALUE, NO_VALUE)
    /\ isoweekday(now) # 1
    /\ toordinal(archive_date) = MondayOfWeek(now) - 7
    /\ result = TRUE

\* the number of months from the month of a date to the month of today
MonthsBack(today, date) ==
    12 * (today.year - date.year) + (today.month - date.month)

\* C21: with month tier N >= 1 and the other tiers NONE, a snapshot is kept
\* iff it is dated the first of a month that is among the N most recent
\* months, the month of the reference date included, whatever the reference
\* month and however many year boundaries the N months cross.
C21_MonthTierBoundary ==
    (op = "should_keep" /\ freq.month >= 1 /\ freq = OnlyMonth(freq)) =>
        (result <=>
            /\ archive_date.day = 1
            /\ MonthsBack(now, archive_date) <= freq.month - 1)

\* N = 14 in January: the December of the year before last is the oldest
\* month kept, two year boundaries back
C21_Witness ==
    /\ op = "should_keep"
    /\ freq = BackupFrequency(NO_VALUE, NO_VALUE, 14, NO_VALUE)
    /\ now.month = 1
    /\ archive_date = Date(now.year - 2, 12, 1)
    /\ result = TRUE

\* C22: with year tier N >= 1 and the other tiers NONE, a snapshot is kept
\* iff it is dated the first of January of a year >= reference year - N + 1;
\* with year tier ALL every first of January is kept, and nothing else.
C22_YearTierBoundary ==
    (op = "should_keep" /\ freq = OnlyYear(freq)) =>
        /\ freq.year >= 1 =>
              (result <=>
                  /\ archive_date.day = 1 /\ archive_date.month = 1
                  /\ archive_date.year >= now.year - freq.year + 1)
        /\ freq.year = ALL_VALUE =>
              (result <=> archive_date.day = 1 /\ archive_date.month = 1)

\* N = 2: the first of January of the year before last is not kept
C22_Witness ==
    /\ op = "should_keep"
    /\ freq = BackupFrequency(NO_VALUE, NO_VALUE, NO_VALUE, 2)
    /\ archive_date = Date(now.year - 2, 1, 1)
    /\ result = FALSE

(***************************************************************************)
(* SpecSaved: one process, on one day, runs the backups of two actions and *)
(* lists and cleans their archives. The second action is named etc/nginx   *)
(* in the `files` mapping of its server (the keys of the mapping are taken *)
(* as they are); it is stored in the vault, and its staging folder         *)
(* <dest_folder>/web_etc exists.                                           *)
(***************************************************************************)
EtcNginx == <<"e", "t", "c", "/", "n", "g", "i", "n", "x">>

SavedActions ==
    << [server_name |-> Web, prefix |-> Web, name |-> App, kind |-> "file",
        storage_list |-> <<1, 2>>],
       [server_name |-> Web, prefix |-> Web, name |-> EtcNginx, kind |-> "file",
        storage_list |-> <<2>>] >>

\* 20220102_web_app.tgz
OldWebApp ==
    <<"2", "0", "2", "2", "0", "1", "0", "2", "_">> \o Web \o <<"_">> \o App \o <<".">> \o Tgz

\* a Monday and a Tuesday
SavedDays == {Date(BaseYear, 1, 2), Date(BaseYear, 1, 3)}

InitSaved ==
    /\ now \in SavedDays
    /\ IdleRetention
    /\ IdleRun
    /\ IdleProbe
    /\ IdleCall
    /\ \E f \in RunPolicies :
          storages = << [kind |-> "local", key |-> Folder, freq |-> f],
                        [kind |-> "glacier", key |-> Vault, freq |-> f] >>
    /\ actions = SavedActions
    /\ \E e1 \in {{}, {OldWebApp}}, e2 \in {{}, {OldWebApp}} : files = <<e1, e2>>
    /\ removed = {}
    /\ listed = [call |-> "none"]
    /\ steps = 0

NextSaved == SharedRunBackup \/ SharedList \/ SharedClean

SpecSaved == InitSaved /\ [][NextSaved]_vars

(***************************************************************************)
(* Claims on the storages (SpecArchive).                                   *)
(***************************************************************************)
\* the naming rule of a managed archive: <8 digits>_<rest>, the rest not empty
MatchesNaming(filename) ==
    /\ Len(filename) >= 10
    /\ \A i \in 1..8 : IsDigit(filename[i])
    /\ filename[9] = "_"

\* C10: for both storage variants, an entry whose name does not match
\* <8 digits>_<rest> is never returned by list_archives and never removed by
\* clean_archives.
C10_UnmanagedNamesIgnored ==
    /\ (listed.call = "list" /\ listed.outcome.ok) =>
          \A a \in listed.outcome.names : MatchesNaming(basename(a))
    /\ \A r \in removed : MatchesNaming(basename(r[2]))

\* the entries of storage s that clean_archives of the action is to delete:
\* those of the archives list_archives(action.full_name) returns for which
\* should_keep is false
ToPrune(action, s) ==
    LET archives == list_archives(storages[s], files[s], full_name(action))
    IN {f \in files[s] :
          \E a \in archives.names :
              /\ f = (IF storages[s].kind = "local" THEN basename(a) ELSE a)
              /\ ~storage_should_keep(storages[s], now, a)}

\* C29: clean_archives(action) only deletes, in each storage, entries of
\* archives it lists for the action and should_keep answers false for:
\* every other entry is left as it was; when it raises nothing it deletes
\* all of them; and a second clean_archives of the same action in the same
\* run deletes nothing more.
C29_CleanRemovesExactly ==
    [][listed'.call = "clean" =>
          LET action == actions[listed'.action]
          IN /\ \A s \in 1..Len(storages) :
                   /\ files'[s] \subseteq files[s]
                   /\ files[s] \ files'[s] \subseteq ToPrune(action, s)
                   /\ ~listed'.error => files[s] \ files'[s] = ToPrune(action, s)
                   /\ \A a \in {r[2] : r \in {x \in removed' \ removed : x[1] = s}} :
                         ~storage_should_keep(storages[s], now, a)
             /\ removed \subseteq removed'
             /\ (listed.call = "clean" /\ listed.action = listed'.action
                    /\ ~listed.error) =>
                   files' = files /\ removed' = removed
      ]_vars

\* web_app was cleaned with no error: an archive was deleted from the
\* folder, while a name that is no archive stayed in it
C29_Witness ==
    /\ listed.call = "clean"
    /\ listed.action = 1
    /\ ~listed.error
    /\ \E r \in removed : r[1] = 1
    /\ \E f \in files[1] : ~MatchesNaming(f)

(***************************************************************************)
(* Claims on the `run` command (SpecRun).                                  *)
(***************************************************************************)
\* the number of entries of a mapping of the Report that are about an action
EntriesAbout(entries, name) ==
    Cardinality({p \in UNION {{<<s, k>> : k \in 1..Len(entries[s])} : s \in DOMAIN entries} :
                    entries[p[1]][p[2]].about = name})

EntryUnder(entries, server, name) ==
    /\ server \in DOMAIN entries
    /\ \E k \in 1..Len(entries[server]) : entries[server][k].about = name

\* C1 as stated: within one action a storage whose save raises does not keep
\* the remaining storages from being attempted: once the fetch succeeded,
\* every storage of the action whose should_save() is true is handed the
\* archive.
C1_EveryDueStorageAttempted ==
    \A i \in 1..Len(outcomes) :
        outcomes[i] \in {"save", "none"} =>
            \A k \in 1..Len(actions[i].storage_list) :
                should_save(storages[actions[i].storage_list[k]].freq, now) =>
                    \E c \in 1..Len(save_calls) :
                        /\ save_calls[c].action = i
                        /\ save_calls[c].storage = actions[i].storage_list[k]

\* C2 as stated: when `run` is interrupted, every configured report target
\* is still given the Report accumulated so far, and main returns 0.
C2_InterruptStillReports ==
    pc = "aborted" =>
        /\ exit_code = 0
        /\ \A t \in 1..Len(report_list) :
              \E d \in 1..Len(delivered) :
                  delivered[d].target = t /\ delivered[d].report = report

\* C4 as stated: an operational error (pruning, fetch or save) never leaves do_backup:
\* main only stops on a configuration error; every selected action is
\* attempted before the report is sent; and every action handled has
\* exactly one entry in the Report, under its server, an issue when its
\* backup failed and a success otherwise.
C4_OneEntryPerAction ==
    /\ uncaught \notin {"StandardError", "Exception"}
    /\ pc \in {"report", "done"} => Len(outcomes) = Len(actions)
    /\ Len(outcomes) <= Len(actions)
    /\ count_entries(report.issues) + count_entries(report.success) = Len(outcomes)
    /\ report.warnings = <<>>
    /\ \A i \in 1..Len(outcomes) :
          LET server == actions[i].server_name
              name == full_name(actions[i])
          IN /\ EntriesAbout(report.issues, name)
                    + EntriesAbout(report.success, name) = 1
             /\ IF outcomes[i] = "none"
                THEN EntryUnder(report.success, server, name)
                ELSE EntryUnder(report.issues, server, name)

\* the archives of the action clean_archives would remove from the storage
Prunable(action, s) ==
    {a \in list_archives(storages[s], files[s], full_name(action)).names :
        ~storage_should_keep(storages[s], now, a)}

\* C28 as stated: do_backup prunes before it fetches and saves: an action
\* whose pruning went through has no prunable archive left in its storages
\* when its saves are made; an action whose pruning raised has no save
\* attempted, exactly one issue entry and no success entry; and an archive
\* that was removed stays removed.
C28_PruneThenSave ==
    /\ \A i \in 1..Len(outcomes) :
          LET name == full_name(actions[i])
          IN IF outcomes[i] = "clean"
             THEN /\ \A c \in 1..Len(save_calls) : save_calls[c].action # i
                  /\ EntriesAbout(report.issues, name) = 1
                  /\ EntriesAbout(report.success, name) = 0
             ELSE \A k \in 1..Len(actions[i].storage_list) :
                     Prunable(actions[i], actions[i].storage_list[k]) = {}
    /\ \A r \in removed : entry_of(storages[r[1]], r[2]) \notin files[r[1]]

ConfigRejected ==
    \/ \E i, j \in 1..Len(config.actions) :
          /\ i # j
          /\ full_name(parse_action_conf(config.actions[i], <<>>))
                = full_name(parse_action_conf(config.actions[j], <<>>))
    \/ \E i \in 1..Len(config.reports) : config.reports[i] \notin ReportTypes

\* C6: a ConfigError is fatal and raised before any action runs: once the
\* configuration was loaded and rejected, main has stopped on the
\* ConfigError with a non-zero status, nothing was pruned, fetched or saved,
\* nothing was added to the Report and no report was sent.
C6_ConfigErrorIsFatal ==
    (ConfigRejected /\ pc # "start") =>
        /\ pc \in {"crashed", "aborted"}
        /\ pc = "crashed" => (uncaught = "ConfigError" /\ exit_code = 1)
        /\ actions = <<>>
        /\ outcomes = <<>>
        /\ save_calls = <<>>
        /\ removed = {}
        /\ report = Report
        /\ delivered = <<>>

\* a configuration whose actions are fine but whose report section names an
\* unknown type, over a folder that holds an archive to prune: main stopped
C6_Witness ==
    /\ pc = "crashed"
    /\ uncaught = "ConfigError"
    /\ Len(config.actions) = 2
    /\ \E i \in 1..Len(config.reports) : config.reports[i] \notin ReportTypes
    /\ files[1] = {OldArchive}

C5_OneProbePerKey ==
    /\ \A f \in DOMAIN probes.folder :
          /\ probes.folder[f] <= 1
          /\ checks.folder[f] >= 1 => probes.folder[f] = 1
    /\ \A v \in DOMAIN probes.glacier :
          /\ probes.glacier[v] <= 1
          /\ checks.glacier[v] >= 1 => probes.glacier[v] = 1

\* a folder whose test failed was checked three times, a vault twice, and
\* each was tested once
C5_Witness ==
    /\ checks.folder[Folder] >= 3
    /\ probes.folder[Folder] = 1
    /\ is_folder_success(folder_cache, Folder) = "False"
    /\ checks.glacier[Vault] >= 2
    /\ probes.glacier[Vault] = 1

\* the step is one check of the folder f, or of a storage over it, alone
OneFolderCheck(f) ==
    /\ checks'.folder[f] = checks.folder[f] + 1
    /\ \A g \in DOMAIN checks.folder \ {f} : checks'.folder[g] = checks.folder[g]
    /\ checks'.glacier = checks.glacier

\* the step is one check of a storage over the vault v, alone
OneVaultCheck(v) ==
    /\ checks'.glacier[v] = checks.glacier[v] + 1
    /\ checks'.folder = checks.folder

\* C23: once a folder or a vault is in the cache its entry never changes and
\* it is never tested again; a later check of it alone returns one
\* diagnostic, marked as cached, when the entry is a failure and the empty
\* list when it is a success.
C23_MemoizeOnce ==
    [][ /\ \A f \in DOMAIN folder_cache :
              /\ f \in DOMAIN folder_cache'
              /\ folder_cache'[f] = folder_cache[f]
              /\ probes'.folder[f] = probes.folder[f]
              /\ OneFolderCheck(f) =>
                    detected_errors' =
                        IF folder_cache[f] THEN <<>>
                        ELSE <<[text |-> "Unable to write to folder",
                                key |-> f, cached |-> TRUE]>>
        /\ \A v \in DOMAIN glacier_vault_cache :
              /\ v \in DOMAIN glacier_vault_cache'
              /\ glacier_vault_cache'[v] = glacier_vault_cache[v]
              /\ probes'.glacier[v] = probes.glacier[v]
              /\ OneVaultCheck(v) =>
                    detected_errors' =
                        IF glacier_vault_cache[v] THEN <<>>
                        ELSE <<[text |-> "Unable to write to glacier vault",
                                key |-> v, cached |-> TRUE]>>
      ]_vars

\* the third check of a folder whose test failed returned the one cached
\* diagnostic, and the folder was tested once
C23_Witness ==
    /\ checks.folder[Tmp] = 3
    /\ probes.folder[Tmp] = 1
    /\ is_folder_success(folder_cache, Tmp) = "False"
    /\ detected_errors = <<[text |-> "Unable to write to folder",
                            key |-> Tmp, cached |-> TRUE]>>

\* the step is check_dest_access of the i-th action
DestAccessStep(i) ==
    \E env \in ProbeEnvs :
        LET r == check_dest_access(actions[i], storages, ProbeState, env)
        IN /\ checks' = r.st.checks
           /\ probes' = r.st.probes
           /\ folder_cache' = r.st.folder_cache
           /\ glacier_vault_cache' = r.st.glacier_vault_cache
           /\ detected_errors' = r.errors
           /\ uncaught' = r.raised

\* the number of storages of the action that are of the kind and over the key
CountIn(action, kind, key) ==
    Cardinality({k \in 1..Len(action.storage_list) :
                    /\ storages[action.storage_list[k]].kind = kind
                    /\ storages[action.storage_list[k]].key = key})

\* C24 as stated: check_dest_access checks the staging folder and then every
\* storage of the action, whatever failed before, and returns: no failure
\* leaves it before the last storage was checked.
C24_EveryStorageChecked ==
    [][ \A i \in 1..Len(actions) :
            DestAccessStep(i) =>
                /\ uncaught' = "none"
                /\ \A f \in DOMAIN checks.folder :
                      checks'.folder[f] = checks.folder[f]
                          + (IF actions[i].dest_folder = f THEN 1 ELSE 0)
                          + CountIn(actions[i], "local", f)
                /\ \A v \in DOMAIN checks.glacier :
                      checks'.glacier[v] = checks.glacier[v]
                          + CountIn(actions[i], "glacier", v)
      ]_vars

(***************************************************************************)
(* Claims on the storages shared by several actions (SpecShared).          *)
(***************************************************************************)
\* the archive was saved by the backup of the action
SavedFor(action, archive) ==
    \E d \in SharedDays :
        basename(archive) = archive_name(d, full_name(action), extension(action))

\* C11 as stated: the archives of two actions of different full_name never
\* alias on a storage they share: list_archives(A.full_name) holds no
\* archive saved for another action B, and cleaning A removes no archive
\* of B.
C11_NoAliasing ==
    /\ (listed.call = "list" /\ listed.outcome.ok) =>
          \A a \in listed.outcome.names :
              \A j \in 1..Len(actions) :
                  j # listed.action => ~SavedFor(actions[j], a)
    /\ listed.call = "clean" =>
          \A r \in listed.removed :
              \A j \in 1..Len(actions) :
                  j # listed.action => ~SavedFor(actions[j], r[2])

(***************************************************************************)
(* Claims on the archives saved by the process (SpecSaved).                *)
(***************************************************************************)
\* the archive storage.save generates for the action in this process, as
\* list_archives names it
SavedArchive(action, s) ==
    LET name == archive_name(now, full_name(action), extension(action))
    IN IF storages[s].kind = "local" THEN path_join(storages[s].key, name)
       ELSE name

\* C30 as stated: on every storage of an action should_save() is true iff
\* should_keep is true for the archive name save generates in this run, so
\* that no sequence of backups, listings and cleanings of one run removes
\* an archive the run saved.
C30_SavedNeverPruned ==
    /\ listed.call = "backup" =>
          \A k \in 1..Len(actions[listed.action].storage_list) :
              LET s == actions[listed.action].storage_list[k]
              IN should_save(storages[s].freq, now)
                    <=> storage_should_keep(storages[s], now,
                                            SavedArchive(actions[listed.action], s))
    /\ \A r \in removed :
          \A i \in 1..Len(actions) : r[2] # SavedArchive(actions[i], r[1])

(***************************************************************************)
(* Claims on the selection of targets (SpecSelect).                        *)
(***************************************************************************)
CountOf(str, c) == Cardinality({i \in 1..Len(str) : str[i] = c})

Elements(seq) == {seq[k] : k \in 1..Len(seq)}

\* the actions an identifier pattern1:pattern2 stands for
ColonMatches(pattern1, pattern2) ==
    {i \in 1..Len(actions) :
        /\ \/ fnmatch(actions[i].server_name, pattern1)
           \/ fnmatch(actions[i].prefix, pattern1)
        /\ \/ fnmatch(actions[i].name, pattern2)
           \/ fnmatch(actions[i].prefix \o <<"_">> \o actions[i].name, pattern2)
           \/ actions[i].kind = "file" /\ fnmatch(actions[i].remote_folder, pattern2)
           \/ actions[i].kind # "file" /\ fnmatch(actions[i].database, pattern2)
           \/ actions[i].kind # "file" /\ fnmatch(db_type(actions[i]), pattern2)}

\* C12: glob_target of an identifier pattern1:pattern2 selects an action iff
\* pattern1 matches its server name or its prefix and pattern2 matches one
\* of its name, full_name, remote folder (file actions), database name or
\* engine tag (database actions).
C12_ColonSelectsOnBothParts ==
    (returned.fn = "glob_target" /\ CountOf(args.identifier_list[1], ":") = 1) =>
        LET parts == split_once(args.identifier_list[1], ":")
            expected == ColonMatches(parts[1], parts[2])
        IN IF expected = {} THEN returned.value.error # "none"
           ELSE /\ returned.value.error = "none"
                /\ Elements(returned.value.results) = expected

\* web*:db selects the database db of web1, and not the database db of api1
C12_Witness ==
    /\ returned.fn = "glob_target"
    /\ args.identifier_list[1] = <<"w", "e", "b", "*", ":", "d", "b">>
    /\ returned.value.error = "none"
    /\ returned.value.results = <<1>>
    /\ actions[2].name = actions[1].name

\* no action is selected by the identifier: by none of its fields when it
\* holds no colon, else by the text before its first colon and the text
\* after it
MatchesNoAction(identifier) ==
    IF Contains(identifier, ":")
    THEN ColonMatches(split_once(identifier, ":")[1],
                      split_once(identifier, ":")[2]) = {}
    ELSE \A i \in 1..Len(actions) :
            /\ ~fnmatch(actions[i].server_name, identifier)
            /\ ~fnmatch(actions[i].prefix, identifier)
            /\ ~matches_target(actions[i], identifier)

\* C13 as stated: an identifier that matches no action, with or without
\* colons in it, makes the resolution fail with the unknown-target error
\* that names this identifier, also when other identifiers of the list
\* match actions.
C13_UnknownTargetIsNamed ==
    /\ (returned.fn = "glob_target" /\ MatchesNoAction(args.identifier_list[1])) =>
          /\ returned.value.error = "RuntimeError"
          /\ returned.value.identifier = args.identifier_list[1]
    /\ (/\ returned.fn = "glob_targets"
        /\ \E k \in 1..Len(args.identifier_list) :
              MatchesNoAction(args.identifier_list[k])) =>
          /\ returned.value.error = "RuntimeError"
          /\ \E k \in 1..Len(args.identifier_list) :
                /\ MatchesNoAction(args.identifier_list[k])
                /\ returned.value.identifier = args.identifier_list[k]

\* C14: glob_targets of a non-empty list returns the union of the actions
\* glob_target returns for each identifier, each action once; of an empty
\* list it returns every action, or none when all_on_empty is false.
C14_UnionWithoutDuplicates ==
    (returned.fn = "glob_targets" /\ returned.value.error = "none") =>
        LET results == returned.value.results
        IN IF args.identifier_list = <<>>
           THEN results = (IF args.all_on_empty
                           THEN [i \in 1..Len(actions) |-> i] ELSE <<>>)
           ELSE /\ \A a, b \in 1..Len(results) : a # b => results[a] # results[b]
                /\ Elements(results) =
                      UNION {Elements(glob_target(actions, args.identifier_list[k]).results) :
                                k \in 1..Len(args.identifier_list)}

\* two identifiers that both match the first action, returned once
C14_Witness ==
    /\ returned.fn = "glob_targets"
    /\ returned.value.error = "none"
    /\ Len(args.identifier_list) = 2
    /\ args.identifier_list[1] # args.identifier_list[2]
    /\ 1 \in Elements(glob_target(actions, args.identifier_list[1]).results)
    /\ 1 \in Elements(glob_target(actions, args.identifier_list[2]).results)
    /\ Len(returned.value.results) = 2

(***************************************************************************)
(* Claims on deep_merge (SpecMerge).                                       *)
(***************************************************************************)
X1 == Dict([key \in {"x"} |-> Scalar(1)])
Y2 == Dict([key \in {"y"} |-> Scalar(2)])
X1Y2 == Dict([key \in {"x", "y"} |-> IF key = "x" THEN Scalar(1) ELSE Scalar(2)])
UnderA(v) == Dict([key \in {"a"} |-> v])

\* what merging two values of a same key yields, for values that hold no
\* mapping in a mapping
MergedLeaf(old, new) ==
    IF new = None THEN old
    ELSE IF old = None THEN new
    ELSE Arr(<<old, new>>)

MergedFlat(old, new) ==
    IF new = None THEN old
    ELSE IF old = None THEN new
    ELSE IF old.type = "array" /\ new.type = "array" THEN Arr(old.items \o new.items)
    ELSE IF old.type = "array" THEN Arr(old.items \o <<new>>)
    ELSE IF old.type = "dict" /\ new.type = "array" THEN Arr(new.items \o <<old>>)
    ELSE IF old.type = "dict" /\ new.type = "dict"
    THEN Dict([key \in DOMAIN old.entries \cup DOMAIN new.entries |->
                IF key \notin DOMAIN new.entries THEN old.entries[key]
                ELSE IF key \notin DOMAIN old.entries THEN new.entries[key]
                ELSE MergedLeaf(old.entries[key], new.entries[key])])
    ELSE Arr(<<old, new>>)

\* C15: deep_merge of two mappings has the keys of both, the value of the
\* one mapping that holds a key, and the merge of the two values of a key
\* both hold; deep_merge of two lists is the old list followed by the new
\* one; {a: {x: 1}} and {a: {y: 2}} give {a: {x: 1, y: 2}}, [1, 2] and [3]
\* give [1, 2, 3]; the arguments are left as they were.
C15_MappingsUnionListsConcatenate ==
    returned.fn = "deep_merge" =>
        LET src == args.src
            new == args.new
            merged == returned.value
        IN /\ (src.type = "dict" /\ new.type = "dict") =>
                /\ merged.type = "dict"
                /\ DOMAIN merged.entries = DOMAIN src.entries \cup DOMAIN new.entries
                /\ \A key \in DOMAIN merged.entries :
                      merged.entries[key] =
                        IF key \notin DOMAIN new.entries THEN src.entries[key]
                        ELSE IF key \notin DOMAIN src.entries THEN new.entries[key]
                        ELSE MergedFlat(src.entries[key], new.entries[key])
           /\ (src.type = "array" /\ new.type = "array") =>
                merged = Arr(src.items \o new.items)
           /\ (src = UnderA(X1) /\ new = UnderA(Y2)) => merged = UnderA(X1Y2)
           /\ (src = Arr(<<Scalar(1), Scalar(2)>>) /\ new = Arr(<<Scalar(3)>>)) =>
                merged = Arr(<<Scalar(1), Scalar(2), Scalar(3)>>)

\* {a: {x: 1}} merged with {a: {y: 2}}
C15_Witness ==
    /\ returned.fn = "deep_merge"
    /\ args.src = UnderA(X1)
    /\ args.new = UnderA(Y2)
    /\ returned.value = UnderA(X1Y2)

\* the numbers a document holds
RECURSIVE Leaves(_)
Leaves(v) ==
    IF v.type = "scalar" THEN {v.scalar}
    ELSE IF v.type = "array"
    THEN UNION {Leaves(v.items[k]) : k \in 1..Len(v.items)}
    ELSE IF v.type = "dict"
    THEN UNION {Leaves(v.entries[key]) : key \in DOMAIN v.entries}
    ELSE {}

Mismatched(old, new) ==
    \/ old.type = "scalar" /\ new.type \in {"scalar", "dict"}
    \/ old.type = "dict" /\ new.type = "scalar"

\* C16: deep_merge always returns a document; a number and a mapping (in
\* either order) or two numbers, as the two arguments or as the two values
\* of a same key, give the list [old, new]; and every number held by one of
\* two arguments that are not None is held by the merged.
C16_NothingDropped ==
    returned.fn = "deep_merge" =>
        LET src == args.src
            new == args.new
            merged == returned.value
        IN /\ merged.type \in {"none", "scalar", "array", "dict"}
           /\ Mismatched(src, new) => merged = Arr(<<src, new>>)
           /\ (src.type = "dict" /\ new.type = "dict") =>
                \A key \in DOMAIN src.entries \cap DOMAIN new.entries :
                    Mismatched(src.entries[key], new.entries[key]) =>
                        merged.entries[key] =
                            Arr(<<src.entries[key], new.entries[key]>>)
           /\ (src # None /\ new # None) =>
                Leaves(src) \cup Leaves(new) \subseteq Leaves(merged)

\* {a: 3} merged with {a: {x: 1}}
C16_Witness ==
    /\ returned.fn = "deep_merge"
    /\ args.src = UnderA(Scalar(3))
    /\ args.new = UnderA(X1)
    /\ returned.value = UnderA(Arr(<<Scalar(3), X1>>))

(***************************************************************************)
(* Claims on the include directives (SpecInclude).                         *)
(***************************************************************************)
\* the deep-merge of the documents of the files a pattern matches, in the
\* order of the directory
RECURSIVE MergedDocs(_, _)
MergedDocs(found, n) ==
    IF n = 0 THEN None ELSE deep_merge(MergedDocs(found, n - 1), found[n].doc)

\* C17 as stated: a text `include P` is replaced by the deep-merge of the
\* documents of the files that P matches, and resolves to the same value as
\* the mapping {include: P}.
C17_IncludeTextLikeMapping ==
    (/\ returned.fn = "parse_includes"
     /\ args.data.type = "string"
     /\ startswith(args.data.text, Include \o <<" ">>)) =>
        LET pattern == SubSeq(args.data.text, Len(Include) + 2, Len(args.data.text))
            found == SelectSeq(args.dir, LAMBDA f : fnmatch(f.name, pattern))
        IN /\ returned.value = MergedDocs(found, Len(found))
           /\ returned.value =
                parse_includes(Dict([key \in {"include"} |-> Str(pattern)]), args.dir)

(***************************************************************************)
(* Claims on the sub-sections of a server block (SpecSection).             *)
(***************************************************************************)
\* the entries of a sub-section given without names, when each of them is
\* one the parsers accept
UnnamedEntries(info) ==
    IF info.type = "string" THEN {info}
    ELSE IF info.type = "array" THEN {info.items[k] : k \in 1..Len(info.items)}
    ELSE {}

\* C18 as stated: a `files` or `databases` sub-section given as one entry
\* or as a list of entries resolves, without failing, to one action per
\* entry, named by the slug of its own path or database identifier.
C18_UnnamedEntriesResolve ==
    /\ (/\ returned.fn = "resolve_files"
        /\ args.info.type \in {"string", "array"}
        /\ \A e \in UnnamedEntries(args.info) : file_action_error(e) = "none") =>
          /\ returned.value.error = "none"
          /\ returned.value.actions =
                {[name |-> strip(sub_runs(e.text), "_"), source |-> e] :
                    e \in UnnamedEntries(args.info)}
    /\ (/\ returned.fn = "resolve_databases"
        /\ args.info.type \in {"string", "array"}
        /\ \A e \in UnnamedEntries(args.info) : db_action_error(e) = "none") =>
          /\ returned.value.error = "none"
          /\ Cardinality(returned.value.actions) =
                Cardinality(UnnamedEntries(args.info))

(***************************************************************************)
(* Claims on the delivery of the report (SpecReport).                      *)
(***************************************************************************)
\* C19 as stated: whatever the report targets and whichever of them fail,
\* report is attempted once on every target, in the order of the
\* configuration, and the script does not end on an uncaught exception.
C19_EveryTargetAttempted ==
    returned.fn \in {"test_reports", "do_report"} =>
        /\ returned.value.attempted =
              [k \in 1..Len(args.report_list) |-> k]
        /\ returned.value.exit = "0"

(***************************************************************************)
(* Claims on the blocks of a server (SpecOverlay).                         *)
(***************************************************************************)
\* C25: every block is built, key by key, from its own value when it has
\* the key, from the value of the common section when only that one has it,
\* and from neither otherwise, whatever the other blocks hold.
C25_BlockWinsOverCommon ==
    returned.fn = "third_parsing" =>
        /\ Len(returned.value) = Len(args.info_list)
        /\ \A b \in 1..Len(args.info_list), key \in OverlayKeys :
              returned.value[b][key] =
                  IF key \in DOMAIN args.info_list[b]
                  THEN args.info_list[b][key]
                  ELSE IF key \in DOMAIN args.common_info
                  THEN args.common_info[key]
                  ELSE "None"

\* the first block replaces the user of the common section, the second does
\* not and is built with the common one
C25_Witness ==
    /\ returned.fn = "third_parsing"
    /\ Len(args.info_list) = 2
    /\ args.common_info = [ssh_user |-> "root", dest_folder |-> "/a"]
    /\ args.info_list[1] = [ssh_user |-> "bak"]
    /\ args.info_list[2] = [dest_folder |-> "/b"]
    /\ returned.value[1].ssh_user = "bak"
    /\ returned.value[1].dest_folder = "/a"
    /\ returned.value[2].ssh_user = "root"
    /\ returned.value[2].dest_folder = "/b"

(***************************************************************************)
(* Claims on the Report (SpecAggregate).                                   *)
(***************************************************************************)
\* the details of the calls of fn for the server, in the order of the calls
RECURSIVE DetailsOf(_, _, _)
DetailsOf(calls, fn, server) ==
    IF calls = <<>> THEN <<>>
    ELSE (IF calls[1].fn = fn /\ calls[1].server = server
          THEN <<calls[1].details>> ELSE <<>>)
         \o DetailsOf(Tail(calls), fn, server)

\* the number of calls of fn
CallsOf(fn) == Cardinality({k \in 1..Len(args) : args[k].fn = fn})

\* the mapping holds, for every server fn was called for, the details of
\* these calls in their order, and no other server
Aggregates(mapping, fn) ==
    /\ DOMAIN mapping = {args[k].server : k \in {j \in 1..Len(args) : args[j].fn = fn}}
    /\ \A server \in DOMAIN mapping :
          mapping[server] = DetailsOf(args, fn, server)

\* C26: after any calls of add_issue, add_warning and add_success, is_empty
\* is true iff no entry was added, is_success iff some entry was added and
\* none by add_issue, issue_count and warning_count are the numbers of
\* add_issue and add_warning calls, and each list of a server holds the
\* details added for it, in the order of the calls.
C26_ReportAggregates ==
    /\ is_empty(report) <=> Len(args) = 0
    /\ is_empty(report) <=>
          count_entries(report.issues) + count_entries(report.warnings)
              + count_entries(report.success) = 0
    /\ is_success(report) <=> (issue_count(report) = 0 /\ ~is_empty(report))
    /\ is_success(report) <=> (Len(args) > 0 /\ CallsOf("add_issue") = 0)
    /\ issue_count(report) = CallsOf("add_issue")
    /\ warning_count(report) = CallsOf("add_warning")
    /\ Aggregates(report.issues, "add_issue")
    /\ Aggregates(report.warnings, "add_warning")
    /\ Aggregates(report.success, "add_success")

\* a report of warnings alone: not empty, no issue, a success
C26_Witness ==
    /\ Len(args) = 3
    /\ CallsOf("add_warning") = 3
    /\ \E server \in DOMAIN report.warnings : Len(report.warnings[server]) = 2
    /\ ~is_empty(report)
    /\ is_success(report)
    /\ warning_count(report) = 3

(***************************************************************************)
(* Claims on the reference date (SpecClock).                               *)
(***************************************************************************)
\* C27: whatever the wall clock, every archive saved by the process is named
\* after the date of its start, and should_save and should_keep answer as
\* on that date.
C27_ReferenceDateFixed ==
    /\ \A s \in 1..Len(files) : \A f \in files[s] :
          SubSeq(f, 1, 8) = strftime_Ymd(now)
    /\ returned.fn = "should_save" =>
          returned.value = should_save(storages[returned.storage].freq, now)
    /\ returned.fn = "should_keep" =>
          returned.value = storage_should_keep(storages[returned.storage],
                                               now, returned.archive)

\* after midnight an archive was saved, and the archive of the day before
\* is still to be kept under a policy of one day
C27_Witness ==
    /\ returned.fn = "should_keep"
    /\ returned.utcnow # now
    /\ storages[1].freq = BackupFrequency(1, NO_VALUE, NO_VALUE, NO_VALUE)
    /\ Cardinality(files[1]) = 2
    /\ returned.value = TRUE

=============================================================================
